---------------------------- MODULE Spec2Model ----------------------------
(***************************************************************************)
(* Hybrid lexical + semantic product search of easymart-v2                 *)
(* (backend-python/app/modules/catalog_index).                             *)
(*                                                                         *)
(* Texts are TLA+ strings; the Python string operations the code uses      *)
(* (lower(), `in`, split(), re.findall(r'\b\w+\b')) are computed character *)
(* by character.  Floating-point scores are fixed-point integers:          *)
(*   - BM25 scores in ten-thousandths (0.01 is 100),                       *)
(*   - hybrid scores in units of 1e-8.                                     *)
(***************************************************************************)
EXTENDS Integers, Sequences, FiniteSets, TLC

VARIABLES
    bm25,         \* BM25Index.bm25: None, or the scorer (the corpus it was built over)
    doc_ids,      \* BM25Index.doc_ids
    corpus,       \* BM25Index.corpus: Absent (no attribute), or a list of token lists
    artifact,     \* the pickle file at index_path: Absent, Corrupt, or its content
    store,        \* primary keys of the products table (DatabaseManager)
    vec,          \* ids of the Chroma collection (VectorIndex)
    query_cache,  \* HybridSearch._query_cache, in insertion order: <<query, expanded>>
    pc,           \* position of each searching thread inside _expand_query
    issued,       \* the workload so far: searches started, fresh queries handed out
    ProductSearcher_cache,  \* ProductSearcher._cache, in insertion order: [key, value]
    last          \* the last call made and how it ended

vars == <<bm25, doc_ids, corpus, artifact, store, vec, query_cache, pc, issued,
          ProductSearcher_cache, last>>

\* Python None / a missing attribute: the empty option; Some(x) is a present value
None == <<>>
Some(x) == <<x>>

---------------------------------------------------------------------------
(* Bounds of the model *)

\* Longest doc-id list / corpus an ingest may produce
MaxIndexLen == 6

\* the most documents the catalog of the ranking examples grows to
MaxCatalogLen == 7

\* the searches of one behaviour of the catalog specification
MaxSearches == 1

\* the fresh queries the searching threads are handed in one behaviour
MaxIssued == 202

\* the second searching thread arrives once the cache holds this many entries
WarmLen == 199

\* the most the fixed-point divisions of a score may lose, in units of 1e-8
RoundingSlack == 100

---------------------------------------------------------------------------
(* Python string primitives *)

LowerLetters == <<"a","b","c","d","e","f","g","h","i","j","k","l","m",
                  "n","o","p","q","r","s","t","u","v","w","x","y","z">>
UpperLetters == <<"A","B","C","D","E","F","G","H","I","J","K","L","M",
                  "N","O","P","Q","R","S","T","U","V","W","X","Y","Z">>
Digits == {"0","1","2","3","4","5","6","7","8","9"}

UpperSet == {UpperLetters[i] : i \in 1..26}
LowerSet == {LowerLetters[i] : i \in 1..26}

\* the characters matched by \w
WordChars == UpperSet \cup LowerSet \cup Digits \cup {"_"}

\* the characters str.split() splits on
Whitespace == {" "}

LowerMap == [c \in UpperSet |-> LowerLetters[CHOOSE i \in 1..26 : UpperLetters[i] = c]]

CharAt(s, i) == SubSeq(s, i, i)

LowerChar(c) == IF c \in UpperSet THEN LowerMap[c] ELSE c

RECURSIVE LowerFrom(_, _)
LowerFrom(s, i) ==
    IF i > Len(s) THEN "" ELSE LowerChar(CharAt(s, i)) \o LowerFrom(s, i + 1)

\* str.lower()
Lower(s) == LowerFrom(s, 1)

\* str(n) of a non-negative integer
RECURSIVE Decimal(_)
Decimal(n) ==
    IF n < 10 THEN CharAt("0123456789", n + 1)
    ELSE Decimal(n \div 10) \o CharAt("0123456789", (n % 10) + 1)

\* Python `sub in s` on strings
Contains(sub, s) ==
    \E i \in 1..(Len(s) - Len(sub) + 1) : SubSeq(s, i, i + Len(sub) - 1) = sub

\* maximal runs of characters of `keep`, left to right
RECURSIVE RunsFrom(_, _, _, _, _)
RunsFrom(s, keep, i, cur, acc) ==
    IF i > Len(s)
    THEN IF cur = "" THEN acc ELSE Append(acc, cur)
    ELSE LET c == CharAt(s, i) IN
         IF c \in keep
         THEN RunsFrom(s, keep, i + 1, cur \o c, acc)
         ELSE RunsFrom(s, keep, i + 1, "", IF cur = "" THEN acc ELSE Append(acc, cur))

\* re.findall(r'\b\w+\b', s)
Words(s) == RunsFrom(s, WordChars, 1, "", <<>>)

CharsOf(s) == {CharAt(s, i) : i \in 1..Len(s)}

\* str.split(): the whitespace-separated pieces
Split(s) == RunsFrom(s, CharsOf(s) \ Whitespace, 1, "", <<>>)

\* s.strip()
RECURSIVE Strip(_)
Strip(s) ==
    IF s = "" THEN s
    ELSE IF CharAt(s, 1) \in Whitespace THEN Strip(SubSeq(s, 2, Len(s)))
    ELSE IF CharAt(s, Len(s)) \in Whitespace THEN Strip(SubSeq(s, 1, Len(s) - 1))
    ELSE s

Range(f) == {f[i] : i \in DOMAIN f}

\* ' '.join(parts)
RECURSIVE Join(_)
Join(parts) ==
    IF parts = <<>> THEN ""
    ELSE IF Len(parts) = 1 THEN parts[1]
    ELSE parts[1] \o " " \o Join(Tail(parts))

\* a comprehension's list, built once: every element evaluated when it is made
List(f) == f \o <<>>

\* a comprehension's dict, built once
Dict(f) == f @@ <<>>

Min(a, b) == IF a < b THEN a ELSE b
Max(a, b) == IF a > b THEN a ELSE b

RECURSIVE SumSeq(_)
SumSeq(s) == IF s = <<>> THEN 0 ELSE Head(s) + SumSeq(Tail(s))

---------------------------------------------------------------------------
(* bm25_index.py: tokenizer *)

STOP_WORDS ==
    {"a", "an", "and", "are", "as", "at", "be", "by", "for", "from", "has", "he",
     "in", "is", "it", "its", "of", "on", "that", "the", "to", "was", "will", "with",
     "too", "also", "just", "very", "me", "show", "find", "get", "give", "want",
     "need", "looking", "search", "please", "can", "you", "i", "we", "they", "this",
     "any", "some", "have", "what", "which", "where", "when", "how", "would", "could"}

PRODUCT_KEYWORDS ==
    {"chair", "chairs", "table", "tables", "desk", "desks", "sofa", "sofas", "bed", "beds",
     "locker", "lockers", "cabinet", "cabinets", "shelf", "shelves", "storage",
     "stool", "stools", "bench", "benches", "wardrobe", "wardrobes", "drawer", "drawers",
     "ottoman", "ottomans", "rack", "racks", "stand", "stands", "couch", "recliner",
     "lamp", "lamps", "rug", "rugs", "mirror", "mirrors", "bookcase", "bookshelf",
     "office", "gaming", "computer", "dining", "bedroom", "living", "outdoor", "patio",
     "kitchen", "bathroom", "kids", "children", "guest",
     "ergonomic", "executive", "mesh", "leather", "fabric", "wood", "metal", "glass",
     "plastic", "velvet", "modern", "rustic", "contemporary", "vintage",
     "black", "white", "brown", "grey", "gray", "blue", "red", "green", "beige",
     "premium", "luxury", "budget", "affordable", "cheap"}

\* the variant that keeps a bigram only when both words are product keywords
BothKeywords(words) ==
    LET idx == SelectSeq([i \in 1..(Len(words) - 1) |-> i],
                         LAMBDA i : words[i] \in PRODUCT_KEYWORDS
                                    /\ words[i + 1] \in PRODUCT_KEYWORDS)
    IN List([k \in 1..Len(idx) |-> words[idx[k]] \o "_" \o words[idx[k] + 1]])

\* the bigrams of _tokenize: adjacent word pairs with a product keyword in them
Bigrams(words) ==
    LET idx == SelectSeq([i \in 1..(Len(words) - 1) |-> i],
                         LAMBDA i : words[i] \in PRODUCT_KEYWORDS
                                    \/ words[i + 1] \in PRODUCT_KEYWORDS)
    IN List([k \in 1..Len(idx) |-> words[idx[k]] \o "_" \o words[idx[k] + 1]])

KeepToken(t) == (Len(t) > 2 /\ t \notin STOP_WORDS) \/ t \in PRODUCT_KEYWORDS

\* BM25Index._tokenize
Tokenize(text) ==
    LET words == Words(Lower(text))
    IN SelectSeq(words, KeepToken) \o Bigrams(words)

---------------------------------------------------------------------------
(* rank_bm25.BM25Okapi, as bm25_index.py uses it: BM25Okapi(corpus) with   *)
(* the library defaults k1 = 1.5, b = 0.75, epsilon = 0.25.  A scorer is   *)
(* represented by the corpus it was built over.                            *)

\* ln(2k - 1) in ten-thousandths, at index k
LnOdd == <<0, 10986, 16094, 19459, 21972, 23979, 25649,
           27081, 28332, 29444, 30445, 31355, 32189>>

Vocabulary(c) == UNION {Range(c[i]) : i \in 1..Len(c)}

\* nd[word]: the number of documents holding the word
DocFreq(c, w) == Cardinality({i \in 1..Len(c) : w \in Range(c[i])})

\* math.log(corpus_size - freq + 0.5) - math.log(freq + 0.5)
RawIdf(c, w) == LnOdd[Len(c) - DocFreq(c, w) + 1] - LnOdd[DocFreq(c, w) + 1]

RECURSIVE SumOver(_, _)
SumOver(S, f) ==
    IF S = {} THEN 0
    ELSE LET x == CHOOSE y \in S : TRUE IN f[x] + SumOver(S \ {x}, f)

\* BM25Okapi._calc_idf: negative idfs are replaced by epsilon * average_idf
IdfTable(c) ==
    LET V   == Vocabulary(c)
        raw == Dict([w \in V |-> RawIdf(c, w)])
        eps == SumOver(V, raw) \div (4 * Cardinality(V))
    IN Dict([w \in V |-> IF raw[w] < 0 THEN eps ELSE raw[w]])

CountIn(doc, w) == Len(SelectSeq(doc, LAMBDA t : t = w))

\* q_freq * (k1 + 1) / (q_freq + k1 * (1 - b + b * doc_len / avgdl)), in ten-thousandths
TermFreqPart(c, i, w) ==
    LET f  == CountIn(c[i], w)
        T  == SumSeq([j \in 1..Len(c) |-> Len(c[j])])
        dl == Len(c[i])
    IN IF f = 0 THEN 0
       ELSE (20 * f * T * 10000) \div (8 * f * T + 3 * T + 9 * dl * Len(c))

\* BM25Okapi.get_scores(query): one score per corpus position, in ten-thousandths
GetScores(c, query_tokens) ==
    LET idf == IdfTable(c)
        term(i, w) == IF w \in DOMAIN idf
                      THEN (idf[w] * TermFreqPart(c, i, w)) \div 10000
                      ELSE 0
    IN List([i \in 1..Len(c) |->
               SumSeq([k \in 1..Len(query_tokens) |-> term(i, query_tokens[k])])])

---------------------------------------------------------------------------
(* bm25_index.py: BM25Index *)

\* MIN_SCORE = 0.01, in ten-thousandths
MIN_SCORE == 100

\* sorted(idx, key=score, reverse=True): descending, equal scores keep their order
RECURSIVE SortDesc(_, _)
SortDesc(idx, score) ==
    IF idx = <<>> THEN <<>>
    ELSE LET best == CHOOSE k \in 1..Len(idx) :
                        /\ \A j \in 1..Len(idx) : score[idx[j]] <= score[idx[k]]
                        /\ \A j \in 1..(k - 1) : score[idx[j]] < score[idx[k]]
             rest == List([j \in 1..(Len(idx) - 1) |->
                             IF j < best THEN idx[j] ELSE idx[j + 1]])
         IN <<idx[best]>> \o SortDesc(rest, score)

FirstN(s, n) == SubSeq(s, 1, Min(n, Len(s)))

---------------------------------------------------------------------------
(* The catalog the ingests draw from *)

Products == <<
    [sku |-> "P1", title |-> "Ergonomic Gaming Chair", tags |-> <<"gaming">>,
     description |-> "RGB lighting, racing style", price |-> 400],
    [sku |-> "P2", title |-> "Kids Study Chair", tags |-> <<>>,
     description |-> "colorful, for children", price |-> 90],
    [sku |-> "P3", title |-> "Modern Office Desk", tags |-> <<"office">>,
     description |-> "Oak top with a drawer", price |-> 250],
    [sku |-> "P4", title |-> "Velvet Sofa", tags |-> <<"Color_Grey">>,
     description |-> "3 seater lounge", price |-> 300],
    [sku |-> "", title |-> "Unlabelled Sample", tags |-> <<>>,
     description |-> "no sku", price |-> 10],
    [sku |-> "P6", title |-> "Blue Office Chair", tags |-> <<>>,
     description |-> "", price |-> 120],
    [sku |-> "P7", title |-> "Office Furniture - Chair, Blue Accent", tags |-> <<>>,
     description |-> "", price |-> 150],
    [sku |-> "P8", title |-> "Plant Stand", tags |-> <<>>,
     description |-> "", price |-> 40] >>

\* the queries and limits the searches are called with
Queries == {"gaming chair", "the"}

\* the queries of the ranking examples
RankingQueries == {"blue office chair", "stands", "ergonomic gaming chair", "desk", "desk lamp",
                   "chairs and shelves", "desks chairs benches"}

\* the queries handed to ProductSearcher.search
SearcherQueries == {"desk", "blue office chair", "desk under 100", "cheap office desk"}

AllQueries == Queries \cup RankingQueries \cup SearcherQueries

Limits == {1, 3}

\* the product lists handed to addProducts (indices into Products)
ProductLists == { <<1, 2, 3>>, <<4, 5, 2, 4>> }

Skus == {Products[i].sku : i \in DOMAIN Products} \ {""}

ProductBySku(sku) == Products[CHOOSE i \in DOMAIN Products : Products[i].sku = sku]

\* catalog.py:150  content = f"{title} {' '.join(tags)} {description}"
Content(p) == p.title \o " " \o Join(p.tags) \o " " \o p.description

\* IndexDocument(id=sku, content=content, metadata=product)
Document(p) == [id |-> p.sku, content |-> Content(p)]

\* CatalogIndexer.addProducts, lines 141-157: skip a missing or repeated sku
RECURSIVE DedupBySku(_, _)
DedupBySku(plist, seen) ==
    IF plist = <<>> THEN <<>>
    ELSE LET p == Products[Head(plist)] IN
         IF p.sku = "" \/ p.sku \in seen
         THEN DedupBySku(Tail(plist), seen)
         ELSE <<Document(p)>> \o DedupBySku(Tail(plist), seen \cup {p.sku})

Documents(plist) == DedupBySku(plist, {})

\* the tokens of each document, as add_documents computes them
TokensOf == Dict([sku \in Skus |-> Tokenize(Content(ProductBySku(sku)))])

BatchCorpus(documents) == List([k \in 1..Len(documents) |-> TokensOf[documents[k].id]])
BatchIds(documents) == List([k \in 1..Len(documents) |-> documents[k].id])

\* the in-memory state of a BM25Index
IndexState == [bm25 |-> bm25, doc_ids |-> doc_ids, corpus |-> corpus]

\* BM25Index.__init__: no scorer, no ids, no corpus attribute
NewIndexState == [bm25 |-> None, doc_ids |-> <<>>, corpus |-> None]

NoArtifact == [state |-> "absent", bm25 |-> None, doc_ids |-> <<>>, corpus |-> <<>>]
CorruptArtifact == [state |-> "corrupt", bm25 |-> None, doc_ids |-> <<>>, corpus |-> <<>>]

\* BM25Index.add_documents, lines 141-162: the index update after the commit
AddToIndex(idx, documents) ==
    LET c == BatchCorpus(documents)
        ids == BatchIds(documents)
    IN IF idx.bm25 = None
       THEN [bm25    |-> Some(c),
             doc_ids |-> ids,
             corpus  |-> IF idx.corpus = None THEN Some(c) ELSE idx.corpus]
       ELSE LET full == IF idx.corpus = None THEN c ELSE idx.corpus[1] \o c
            IN [bm25 |-> Some(full), doc_ids |-> idx.doc_ids \o ids, corpus |-> Some(full)]

\* BM25Index.save: the pickled {'bm25', 'doc_ids', 'corpus'}; nothing without a scorer
SavedArtifact(idx, art) ==
    IF idx.bm25 = None THEN art
    ELSE [state   |-> "valid",
          bm25    |-> idx.bm25,
          doc_ids |-> idx.doc_ids,
          corpus  |-> IF idx.corpus = None THEN <<>> ELSE idx.corpus[1]]

\* a load() that deletes a corrupted artifact but keeps what the index held
LoadKeepingState(idx, art) ==
    IF art.state = "valid"
    THEN [idx |-> [bm25 |-> art.bm25, doc_ids |-> art.doc_ids, corpus |-> Some(art.corpus)],
          artifact |-> art]
    ELSE [idx |-> idx, artifact |-> NoArtifact]

\* BM25Index.load: the index state and the artifact after the call
LoadIndex(idx, art) ==
    IF art.state = "absent" THEN [idx |-> idx, artifact |-> art]
    ELSE IF art.state = "valid"
    THEN [idx |-> [bm25 |-> art.bm25, doc_ids |-> art.doc_ids, corpus |-> Some(art.corpus)],
          artifact |-> art]
    ELSE [idx |-> [bm25 |-> None, doc_ids |-> <<>>, corpus |-> Some(<<>>)],
          artifact |-> NoArtifact]

\* BM25Index.clear: the corpus attribute is left as it is
ClearIndex(idx) == [bm25 |-> None, doc_ids |-> <<>>, corpus |-> idx.corpus]

\* a selection that keeps every index scoring above MIN_SCORE
AllIndices(scores, limit) ==
    SortDesc(SelectSeq(List([i \in 1..Len(scores) |-> i]), LAMBDA i : scores[i] > MIN_SCORE),
             scores)

\* lines 192-196: the indices scoring above MIN_SCORE, best first, cut at the limit
TopIndices(scores, limit) ==
    FirstN(SortDesc(SelectSeq(List([i \in 1..Len(scores) |-> i]),
                              LAMBDA i : scores[i] > MIN_SCORE),
                    scores),
           limit)

\* an assembly that fails on a top id the store has no record of
AssembleStrict(idx, st, scores, top_indices) ==
    [raised |-> TRUE, results |-> <<>>]

\* lines 198-228: the results assembled for the top indices from the document store
Assemble(idx, st, scores, top_indices) ==
    IF \E k \in 1..Len(top_indices) : top_indices[k] > Len(idx.doc_ids)
    THEN [raised |-> TRUE, results |-> <<>>]     \* IndexError at line 201
    ELSE [raised |-> FALSE,
          results |-> List(SelectSeq(List([k \in 1..Len(top_indices) |->
                                             [id |-> idx.doc_ids[top_indices[k]],
                                              score |-> scores[top_indices[k]]]]),
                                     LAMBDA r : r.id \in st))]

\* BM25Index.search, lines 182-228, on a built scorer
ScoredSearch(idx, st, query, limit) ==
    LET query_tokens == Tokenize(query)
    IN IF query_tokens = <<>> THEN [raised |-> FALSE, results |-> <<>>]
       ELSE LET scores == GetScores(idx.bm25[1], query_tokens)
            IN Assemble(idx, st, scores, TopIndices(scores, limit))

\* BM25Index.search: a missing scorer is first loaded from the artifact
BM25Search(idx, art, st, query, limit) ==
    LET loaded == IF idx.bm25 = None THEN LoadIndex(idx, art)
                  ELSE [idx |-> idx, artifact |-> art]
    IN [idx |-> loaded.idx, artifact |-> loaded.artifact]
       @@ (IF loaded.idx.bm25 = None THEN [raised |-> FALSE, results |-> <<>>]
           ELSE ScoredSearch(loaded.idx, st, query, limit))

---------------------------------------------------------------------------
(* hybrid_search.py: tables *)

IMPORTANT_NOUNS ==
    {"chair", "chairs", "table", "tables", "desk", "desks", "sofa", "sofas",
     "bed", "beds", "locker", "lockers", "cabinet", "cabinets", "shelf", "shelves",
     "storage", "stool", "stools", "bench", "benches", "wardrobe", "wardrobes",
     "drawer", "drawers", "ottoman", "ottomans", "rack", "racks", "stand", "stands",
     "recliner", "recliners", "armchair", "armchairs", "lounge", "lounges"}

CATEGORY_KEYWORDS == [
    chair    |-> <<"chair", "chairs", "seating", "seat", "gaming chair", "office chair",
                   "desk chair">>,
    table    |-> <<"table", "tables", "console table", "coffee table", "dining table",
                   "side table">>,
    desk     |-> <<"desk", "desks", "workstation", "work station", "computer desk",
                   "office desk", "writing desk">>,
    sofa     |-> <<"sofa", "sofas", "couch", "couches", "settee", "loveseat", "lounge",
                   "lounger", "sectional", "chaise", "reception sofa", "seater sofa",
                   "2 seater", "3 seater", "triple sofa">>,
    bed      |-> <<"bed", "beds", "mattress", "mattresses", "bedframe", "bed frame",
                   "headboard", "bunk">>,
    shelf    |-> <<"shelf", "shelves", "bookcase", "bookcases", "shelving", "bookshelf",
                   "display unit">>,
    storage  |-> <<"storage", "locker", "lockers", "cabinet", "cabinets", "wardrobe",
                   "wardrobes", "drawer", "chest", "organizer">>,
    stool    |-> <<"stool", "stools", "ottoman", "ottomans", "bar stool", "footstool",
                   "counter stool">>,
    recliner |-> <<"recliner", "recliners", "reclining", "lounge chair", "lounger",
                   "massage chair">>,
    armchair |-> <<"armchair", "armchairs", "arm chair">>,
    lighting |-> <<"lamp", "lamps", "light", "lights", "lighting", "chandelier",
                   "pendant", "sconce">>,
    outdoor  |-> <<"outdoor", "patio", "garden", "deck", "balcony", "exterior">>,
    rug      |-> <<"rug", "rugs", "carpet", "carpets", "mat", "mats", "runner">>,
    mirror   |-> <<"mirror", "mirrors", "vanity">>,
    decor    |-> <<"decor", "decoration", "decorative", "art", "vase", "ornament",
                   "wall art">> ]

CATEGORY_ALIASES == [
    sofa     |-> <<"lounge", "settee">>,
    chair    |-> <<"stool", "seating">>,
    recliner |-> <<"lounge chair", "lounger">>,
    table    |-> <<"desk">>,
    desk     |-> <<"table">>,
    storage  |-> <<"shelf", "cabinet">>,
    bed      |-> <<"mattress">> ]

\* _extract_primary_category, line 161
priority_order == <<"lighting", "rug", "mirror", "decor", "sofa", "recliner", "chair",
                    "bed", "desk", "table", "shelf", "stool", "storage", "outdoor">>

\* dictionaries the code iterates over, in their insertion order
NEGATIVE_KEYWORDS == <<
    [key |-> "gaming", values |-> <<"kids", "kid", "children", "child", "baby", "toddler",
                                    "toy", "playground", "plastic">>],
    [key |-> "office", values |-> <<"kids", "kid", "children", "child", "baby", "toddler",
                                    "toy", "playground">>],
    [key |-> "professional", values |-> <<"kids", "kid", "children", "child", "baby",
                                          "toy", "plastic">>],
    [key |-> "executive", values |-> <<"kids", "kid", "children", "child", "baby", "toy",
                                       "plastic">>],
    [key |-> "ergonomic", values |-> <<"kids", "kid", "children", "toy", "plastic">>],
    [key |-> "adult", values |-> <<"kids", "kid", "children", "child", "baby", "toddler",
                                   "toy">>],
    [key |-> "premium", values |-> <<"cheap", "budget", "plastic", "toy">>],
    [key |-> "luxury", values |-> <<"cheap", "budget", "plastic", "toy">>],
    [key |-> "leather", values |-> <<"plastic", "pvc">>],
    [key |-> "metal", values |-> <<"plastic", "cardboard">>],
    [key |-> "wood", values |-> <<"plastic", "cardboard">>],
    [key |-> "kids", values |-> <<"office", "executive", "professional", "gaming", "adult">>],
    [key |-> "children", values |-> <<"office", "executive", "professional", "gaming",
                                      "adult">>] >>

INTENT_KEYWORDS == <<
    [key |-> "gaming", values |-> <<"rgb", "racing", "ergonomic", "reclining", "adjustable",
                                    "swivel", "lumbar">>],
    [key |-> "office", values |-> <<"ergonomic", "executive", "professional", "swivel",
                                    "adjustable", "mesh", "lumbar">>],
    [key |-> "kids", values |-> <<"child", "children", "youth", "junior", "study",
                                  "colorful", "small">>],
    [key |-> "outdoor", values |-> <<"weather", "waterproof", "patio", "garden",
                                     "resistant">>],
    [key |-> "bedroom", values |-> <<"bed", "nightstand", "dresser", "wardrobe",
                                     "sleeping">>],
    [key |-> "living", values |-> <<"sofa", "couch", "coffee", "entertainment", "lounge",
                                    "recliner", "armchair">>],
    [key |-> "living room", values |-> <<"sofa", "couch", "lounge", "recliner", "armchair",
                                         "ottoman", "coffee table">>] >>

QUERY_SYNONYMS == <<
    [key |-> "cheap", values |-> <<"budget", "affordable", "value", "low price">>],
    [key |-> "expensive", values |-> <<"premium", "luxury", "high-end", "designer">>],
    [key |-> "couch", values |-> <<"sofa", "settee", "lounge">>],
    [key |-> "cupboard", values |-> <<"cabinet", "storage", "wardrobe">>],
    [key |-> "wardrobe", values |-> <<"closet", "armoire", "clothes storage">>],
    [key |-> "nightstand", values |-> <<"bedside table", "night table", "end table">>],
    [key |-> "dresser", values |-> <<"chest of drawers", "bureau", "drawers">>],
    [key |-> "bookshelf", values |-> <<"bookcase", "shelving", "book storage">>],
    [key |-> "lamp", values |-> <<"light", "lighting", "table lamp">>],
    [key |-> "rug", values |-> <<"carpet", "floor mat", "area rug">>],
    [key |-> "small", values |-> <<"compact", "mini", "little">>],
    [key |-> "big", values |-> <<"large", "oversized", "spacious">>],
    [key |-> "modern", values |-> <<"contemporary", "minimalist", "sleek">>],
    [key |-> "rustic", values |-> <<"farmhouse", "country", "vintage">>],
    [key |-> "comfy", values |-> <<"comfortable", "cozy", "plush">>] >>

\* HybridSearch._cache_max_size
cache_max_size == 200

\* index_config.hybrid_alpha = 0.6, in tenths
hybrid_alpha == 6

\* the 60 of rrf_score = 1.0 / (60 + rank)
RRF_K == 60

\* SEMANTIC_THRESHOLD = 0.85, in hundredths
SEMANTIC_THRESHOLD == 85

MIN_RESULTS == 3

---------------------------------------------------------------------------
(* hybrid_search.py: HybridSearch helpers *)

\* the synonyms[:2] of every QUERY_SYNONYMS word found in the query, from entry k on
RECURSIVE SynonymTerms(_, _)
SynonymTerms(query_lower, k) ==
    IF k > Len(QUERY_SYNONYMS) THEN <<>>
    ELSE (IF Contains(QUERY_SYNONYMS[k].key, query_lower)
          THEN FirstN(QUERY_SYNONYMS[k].values, 2) ELSE <<>>)
         \o SynonymTerms(query_lower, k + 1)

\* _expand_query, lines 127-137: the expansion computed on a cache miss
Expansion(query) ==
    LET query_lower == Lower(query) IN Join(<<query_lower>> \o SynonymTerms(query_lower, 1))

CacheHas(cache, q) == \E i \in 1..Len(cache) : cache[i].key = q
CacheGet(cache, q) == cache[CHOOSE i \in 1..Len(cache) : cache[i].key = q].value

\* dict[q] = v: a present key keeps its place, a new one goes last
CachePut(cache, q, v) ==
    IF CacheHas(cache, q)
    THEN List([i \in 1..Len(cache) |-> IF cache[i].key = q THEN [key |-> q, value |-> v]
                                       ELSE cache[i]])
    ELSE Append(cache, [key |-> q, value |-> v])

\* the variant that removes the entry inserted last
EvictNewest(cache) == SubSeq(cache, 1, Len(cache) - 1)

\* del dict[next(iter(dict))]
EvictOldest(cache) == Tail(cache)

\* HybridSearch._expand_query run by one caller at a time
ExpandQuery(cache, query) ==
    IF CacheHas(cache, query)
    THEN [cache |-> cache, expanded |-> CacheGet(cache, query)]
    ELSE LET expanded == Expansion(query)
             room == IF Len(cache) >= cache_max_size THEN EvictOldest(cache) ELSE cache
         IN [cache |-> CachePut(room, query, expanded), expanded |-> expanded]

CategoryHit(category, query_lower) ==
    \E k \in 1..Len(CATEGORY_KEYWORDS[category]) :
        Contains(CATEGORY_KEYWORDS[category][k], query_lower)

\* the keywords of a category, extended by those of its aliases that are categories
AllKeywords(category) ==
    Range(CATEGORY_KEYWORDS[category])
    \cup (IF category \in DOMAIN CATEGORY_ALIASES
          THEN UNION {Range(CATEGORY_KEYWORDS[a]) :
                        a \in Range(CATEGORY_ALIASES[category]) \cap DOMAIN CATEGORY_KEYWORDS}
          ELSE {})

\* the variant that keeps the last group hit instead of returning at the first
LastHitCategory(query) ==
    LET query_lower == Lower(query)
        hits == SelectSeq(priority_order,
                          LAMBDA c : c \in DOMAIN CATEGORY_KEYWORDS /\ CategoryHit(c, query_lower))
    IN IF hits = <<>> THEN [category |-> "", keywords |-> {}]
       ELSE [category |-> hits[Len(hits)], keywords |-> AllKeywords(hits[Len(hits)])]

\* HybridSearch._extract_primary_category; category "" stands for None
ExtractPrimaryCategory(query) ==
    LET query_lower == Lower(query)
        hits == SelectSeq(priority_order,
                          LAMBDA c : c \in DOMAIN CATEGORY_KEYWORDS /\ CategoryHit(c, query_lower))
    IN IF hits = <<>> THEN [category |-> "", keywords |-> {}]
       ELSE [category |-> hits[1], keywords |-> AllKeywords(hits[1])]

IsWordAt(s, i) == i >= 1 /\ i <= Len(s) /\ CharAt(s, i) \in WordChars

\* re.search(rf'\b{keyword}\b', s)
WordMatch(keyword, s) ==
    \E i \in 1..(Len(s) - Len(keyword) + 1) :
        /\ SubSeq(s, i, i + Len(keyword) - 1) = keyword
        /\ IsWordAt(s, i - 1) # IsWordAt(s, i)
        /\ IsWordAt(s, i + Len(keyword) - 1) # IsWordAt(s, i + Len(keyword))

\* HybridSearch._check_category_match; the match score is in eighths
CheckCategoryMatch(text, category_keywords, primary_category) ==
    LET text_lower == Lower(text)
        weight == Dict([kw \in category_keywords |->
                          IF ~Contains(kw, text_lower) THEN 0
                          ELSE IF ~WordMatch(kw, text_lower) THEN 1
                          ELSE IF primary_category # "" /\ kw = primary_category THEN 5
                          ELSE 2])
        count(n) == Cardinality({kw \in category_keywords : weight[kw] = n})
        matches == count(1) + 2 * count(2) + 5 * count(5)
        primary_match == \E kw \in category_keywords : weight[kw] = 5
    IN [has_match |-> matches > 0,
        match_score |-> IF primary_match THEN Min(3 * Min(matches, 4), 8)
                        ELSE Min(2 * matches, 8)]

\* how many entries of an ordered table have their key in the query and a value in the text
KeyedMatches(table, query_lower, text_lower) ==
    List([k \in 1..Len(table) |->
            IF Contains(table[k].key, query_lower)
            THEN Len(SelectSeq(table[k].values, LAMBDA v : Contains(v, text_lower)))
            ELSE 0])

\* a penalty that never applies
NoPenalty(query, title, description) == 0

\* HybridSearch._calculate_negative_keyword_penalty: the number of 0.1 factors
NegativePenaltyCount(query, title, description) ==
    LET m == KeyedMatches(NEGATIVE_KEYWORDS, Lower(query), Lower(title \o " " \o description))
    IN Len(SelectSeq(m, LAMBDA n : n > 0))

\* HybridSearch._calculate_intent_boost, in tenths
IntentBoost(query, title, description) ==
    LET m == KeyedMatches(INTENT_KEYWORDS, Lower(query), Lower(title \o " " \o description))
    IN Min(10 + 3 * SumSeq([k \in 1..Len(m) |-> Min(m[k], 3)]), 20)

\* HybridSearch._calculate_phrase_score, in thousandths
PhraseScore(query, title, description) ==
    LET query_lower == Strip(Lower(query))
        title_lower == Lower(title)
        desc_lower  == Lower(description)
        query_words == Range(Words(query_lower))
        title_words == Range(Words(title_lower))
        desc_words  == Range(Words(desc_lower))
        title_match_count == Cardinality(query_words \cap title_words)
    IN IF Contains(query_lower, title_lower) THEN 10000
       ELSE IF query_words \subseteq title_words THEN 5000
       ELSE IF Contains(query_lower, desc_lower) THEN 3000
       ELSE IF query_words \subseteq desc_words THEN 2000
       ELSE IF title_match_count > 0 /\ 2 * title_match_count >= Cardinality(query_words)
       THEN 1000 + (500 * title_match_count) \div Cardinality(query_words)
       ELSE 1000

\* legacy_title_boost = 1.0 + (title_match_count * 0.5), in thousandths
LegacyTitleBoost(query_lower, title) ==
    1000 + 500 * Cardinality(Range(Split(query_lower)) \cap Range(Split(title)))

RECURSIVE Pow10(_)
Pow10(k) == IF k = 0 THEN 1 ELSE 10 * Pow10(k - 1)

\* lines 372-385 and 425-438: title_boost * intent_boost in thousandths, and the
\* number of 0.1 factors of the negative penalty
FinalBoost(query, p) ==
    LET title == Lower(p.title)
        description == Lower(p.description)
    IN [boost |-> (Max(PhraseScore(query, title, description),
                       LegacyTitleBoost(Lower(query), title))
                   * IntentBoost(query, title, description)) \div 10,
        penalties |-> NegativePenaltyCount(query, title, description)]

\* FinalBoost of every query and product of the model, computed once
FinalBoostTable ==
    Dict([q \in AllQueries |-> Dict([sku \in Skus |-> FinalBoost(q, ProductBySku(sku))])])

\* weight * rrf_score * final_boost for one branch, in units of 1e-8;
\* weight is alpha or 1 - alpha in tenths
Contribution(weight, rank, b) ==
    ((weight * b.boost * 10000) \div (RRF_K + rank)) \div Pow10(b.penalties)

\* the final boost of a hit of the query
BoostOf(query, id) ==
    IF query \in AllQueries THEN FinalBoostTable[query][id]
    ELSE FinalBoost(query, ProductBySku(id))

\* str(tags) of a list of tags
RECURSIVE TagsRepr(_)
TagsRepr(tags) ==
    IF tags = <<>> THEN ""
    ELSE "'" \o Head(tags) \o "'" \o (IF Len(tags) > 1 THEN ", " ELSE "") \o TagsRepr(Tail(tags))

\* the text the category check reads: title, description, tags and type
CategoryText(p) ==
    Lower(p.title) \o " " \o Lower(p.description) \o " "
    \o Lower("[" \o TagsRepr(p.tags) \o "]") \o " " \o ""

\* the variant that keeps one entry per occurrence
AppendCandidate(combined, entry) == Append(combined, entry)

\* combined_scores[id] = entry: a present id keeps its place
PutCandidate(combined, entry) ==
    IF \E i \in 1..Len(combined) : combined[i].id = entry.id
    THEN List([i \in 1..Len(combined) |->
                 IF combined[i].id = entry.id THEN entry ELSE combined[i]])
    ELSE Append(combined, entry)

\* the loop over bm25_results, lines 362-397, from rank k on
RECURSIVE Bm25Loop(_, _, _, _)
Bm25Loop(bm25_results, k, query, combined) ==
    IF k > Len(bm25_results) THEN combined
    ELSE Bm25Loop(bm25_results, k + 1, query,
            PutCandidate(combined,
                [id |-> bm25_results[k].id,
                 score |-> Contribution(hybrid_alpha, k,
                                        BoostOf(query, bm25_results[k].id)),
                 bm25_rank |-> k, vector_rank |-> 0, semantic_distance |-> -1,
                 category_match |-> FALSE, is_fallback |-> FALSE]))

\* the variant in which the semantic term replaces the lexical one
ReplaceSemantic(combined, r, k, add) ==
    IF r.distance > SEMANTIC_THRESHOLD THEN combined
    ELSE IF \E i \in 1..Len(combined) : combined[i].id = r.id
    THEN List([i \in 1..Len(combined) |->
                 IF combined[i].id = r.id
                 THEN [combined[i] EXCEPT !.score = add, !.vector_rank = k,
                                          !.semantic_distance = r.distance]
                 ELSE combined[i]])
    ELSE Append(combined,
                [id |-> r.id, score |-> add, bm25_rank |-> 0, vector_rank |-> k,
                 semantic_distance |-> r.distance,
                 category_match |-> FALSE, is_fallback |-> FALSE])

\* the variant without the distance threshold
AddAnyDistance(combined, r, k, add) ==
    IF \E i \in 1..Len(combined) : combined[i].id = r.id
    THEN List([i \in 1..Len(combined) |->
                 IF combined[i].id = r.id
                 THEN [combined[i] EXCEPT !.score = @ + add, !.vector_rank = k,
                                          !.semantic_distance = r.distance]
                 ELSE combined[i]])
    ELSE Append(combined,
                [id |-> r.id, score |-> add, bm25_rank |-> 0, vector_rank |-> k,
                 semantic_distance |-> r.distance,
                 category_match |-> FALSE, is_fallback |-> FALSE])

\* lines 403-461 for the hit r of rank k, which contributes add
AddSemantic(combined, r, k, add) ==
    IF r.distance > SEMANTIC_THRESHOLD THEN combined
    ELSE IF \E i \in 1..Len(combined) : combined[i].id = r.id
    THEN List([i \in 1..Len(combined) |->
                 IF combined[i].id = r.id
                 THEN [combined[i] EXCEPT !.score = @ + add, !.vector_rank = k,
                                          !.semantic_distance = r.distance]
                 ELSE combined[i]])
    ELSE Append(combined,
                [id |-> r.id, score |-> add, bm25_rank |-> 0, vector_rank |-> k,
                 semantic_distance |-> r.distance,
                 category_match |-> FALSE, is_fallback |-> FALSE])

\* the loop over vector_results, lines 400-461, from rank k on
RECURSIVE VectorLoop(_, _, _, _)
VectorLoop(vector_results, k, query, combined) ==
    IF k > Len(vector_results) THEN combined
    ELSE VectorLoop(vector_results, k + 1, query,
            AddSemantic(combined, vector_results[k], k,
                        Contribution(10 - hybrid_alpha, k,
                                     BoostOf(query, vector_results[k].id))))

\* a sort that leaves the entries in the order they came in
KeepOrder(entries) == entries

\* sorted(entries, key=score, reverse=True)
SortByScore(entries) ==
    LET order == SortDesc(List([i \in 1..Len(entries) |-> i]),
                          List([i \in 1..Len(entries) |-> entries[i].score]))
    IN List([k \in 1..Len(entries) |-> entries[order[k]]])

\* the lowercased title of every product, computed once
TitleLower == Dict([sku \in Skus |-> Lower(ProductBySku(sku).title)])

\* _check_category_match of every product against every category, computed once
CategoryMatchTable ==
    Dict([category \in DOMAIN CATEGORY_KEYWORDS |->
            Dict([sku \in Skus |-> CheckCategoryMatch(CategoryText(ProductBySku(sku)),
                                                      AllKeywords(category), category)])])

\* lines 485-511 for one candidate: its flag and boosted score
CategoryBoost(c, category, m) ==
    IF ~m.has_match THEN [c EXCEPT !.category_match = FALSE]
    ELSE IF Contains(category, TitleLower[c.id])
    THEN [c EXCEPT !.category_match = TRUE, !.score = (@ * (12 + m.match_score)) \div 8]
    ELSE [c EXCEPT !.category_match = TRUE, !.score = (@ * (16 + m.match_score)) \div 16]

\* lines 475-511 for one candidate
Categorized(c, cat) ==
    IF cat.category # "" /\ cat.keywords # {}
    THEN CategoryBoost(c, cat.category, CategoryMatchTable[cat.category][c.id])
    ELSE [c EXCEPT !.category_match = TRUE]

\* a search that never adds unmatched candidates back
NoFallback(category_matched, category_unmatched) == <<>>

\* the variant that adds every unmatched candidate back
AllUnmatched(category_matched, category_unmatched) ==
    IF Len(category_matched) < MIN_RESULTS /\ category_unmatched # <<>>
    THEN LET top == SortByScore(category_unmatched)
         IN List([k \in 1..Len(top) |->
                    [top[k] EXCEPT !.score = (@ * 3) \div 10, !.is_fallback = TRUE]])
    ELSE <<>>

\* lines 516-528: the unmatched candidates that are added back
Fallback(category_matched, category_unmatched) ==
    IF Len(category_matched) < MIN_RESULTS /\ category_unmatched # <<>>
    THEN LET top == FirstN(SortByScore(category_unmatched),
                           MIN_RESULTS - Len(category_matched))
         IN List([k \in 1..Len(top) |->
                    [top[k] EXCEPT !.score = (@ * 3) \div 10, !.is_fallback = TRUE]])
    ELSE <<>>

\* lines 353-359: the important nouns of the query, plurals reduced to their base
UniqueBaseNouns(query_lower) ==
    LET important == Range(Split(query_lower)) \cap IMPORTANT_NOUNS
    IN {IF CharAt(n, Len(n)) = "s" /\ SubSeq(n, 1, Len(n) - 1) \in IMPORTANT_NOUNS
        THEN SubSeq(n, 1, Len(n) - 1) ELSE n : n \in important}

\* the variant that halves the score of a candidate matching no noun
NounPenalized(c, unique_base_nouns) ==
    LET title == TitleLower[c.id]
        matched_count == Cardinality({b \in unique_base_nouns :
                                        Contains(b, title) \/ Contains(b \o "s", title)})
        n == Cardinality(unique_base_nouns)
    IN IF n = 0 THEN c
       ELSE IF matched_count >= n THEN [c EXCEPT !.score = @ * 2]
       ELSE IF 2 * matched_count >= n THEN [c EXCEPT !.score = (@ * 3) \div 2]
       ELSE IF matched_count > 0 THEN [c EXCEPT !.score = (@ * 6) \div 5]
       ELSE [c EXCEPT !.score = @ \div 2]

\* lines 537-551: the noun-match multiplier applied to one candidate
NounMatched(c, unique_base_nouns) ==
    LET title == TitleLower[c.id]
        matched_count == Cardinality({b \in unique_base_nouns :
                                        Contains(b, title) \/ Contains(b \o "s", title)})
        n == Cardinality(unique_base_nouns)
    IN IF n = 0 THEN c
       ELSE IF matched_count >= n THEN [c EXCEPT !.score = @ * 2]
       ELSE IF 2 * matched_count >= n THEN [c EXCEPT !.score = (@ * 3) \div 2]
       ELSE IF matched_count > 0 THEN [c EXCEPT !.score = (@ * 6) \div 5]
       ELSE c

\* min(limit * 10, 100)
CandidateLimit(limit) == Min(limit * 10, 100)

\* what lines 345-359 derive from the query alone: its primary category and nouns
QueryIntent(query) ==
    [cat |-> ExtractPrimaryCategory(Lower(query)), nouns |-> UniqueBaseNouns(Lower(query))]

\* QueryIntent of every query of the model, computed once
QueryIntentTable == Dict([q \in AllQueries |-> QueryIntent(q)])

\* lines 475-511: the sorted candidates, each with its category flag and boost
CategoryPass(sorted_candidates, cat) ==
    List([k \in 1..Len(sorted_candidates) |-> Categorized(sorted_candidates[k], cat)])

\* lines 513-528: the matched candidates by score, then the ones added back
Backfilled(category_matched, category_unmatched) ==
    category_matched \o Fallback(category_matched, category_unmatched)

Pool(sorted_candidates) ==
    Backfilled(SortByScore(SelectSeq(sorted_candidates, LAMBDA c : c.category_match)),
               SelectSeq(sorted_candidates, LAMBDA c : ~c.category_match))

\* lines 533-566: the first limit + 5 of the pool, each with its noun multiplier
NounPass(pool, nouns, limit) ==
    List([k \in 1..Min(Len(pool), limit + 5) |-> NounMatched(pool[k], nouns)])

\* lines 464-581: the results for the candidates of the two branches
Ranked(intent, combined, limit) ==
    FirstN(SortByScore(NounPass(Pool(CategoryPass(SortByScore(combined), intent.cat)),
                                intent.nouns, limit)),
           limit)

\* HybridSearch.search, lines 349-581, given what the two branches returned
Rank(query, limit, bm25_results, vector_results) ==
    Ranked(IF query \in AllQueries THEN QueryIntentTable[query] ELSE QueryIntent(query),
           VectorLoop(vector_results, 1, query, Bm25Loop(bm25_results, 1, query, <<>>)),
           limit)

\* lines 341-581 once the lexical branch has returned lex
Merged(lex, cache, query, limit, sem) ==
    [idx |-> lex.idx, artifact |-> lex.artifact, cache |-> cache,
     raised |-> lex.raised \/ sem.raised,
     results |-> IF lex.raised \/ sem.raised THEN <<>>
                 ELSE Rank(query, limit, lex.results, sem.hits)]

\* HybridSearch.search: what it returns and what it leaves behind.  sem is what
\* vector_index.search does for the query: it raises, or returns hits by distance.
HybridSearch(idx, art, st, cache, query, limit, sem) ==
    LET ex == ExpandQuery(cache, Lower(query))
    IN Merged(BM25Search(idx, art, st, ex.expanded, CandidateLimit(limit)),
              ex.cache, query, limit, sem)

---------------------------------------------------------------------------
(* Inputs *)

\* the orders in which the embedding model may rank the catalog for a query
SemRankings == { <<"P1", "P2", "P3", "P4">>, <<"P4", "P3", "P2", "P1">> }

\* VectorIndex.search(query, n): the n nearest ids of the collection, nearest first;
\* the first `near` of them within the semantic threshold, the others beyond it
VectorHits(ranking, near, n) ==
    LET present == FirstN(SelectSeq(ranking, LAMBDA id : id \in vec), n)
    IN List([k \in 1..Len(present) |->
               [id |-> present[k], distance |-> IF k <= near THEN 40 ELSE 90]])

\* what vector_index.search(query, n) may do, given the orders the model may rank in
Outcomes(rankings, n) ==
    {[raised |-> TRUE, hits |-> <<>>]}
    \cup {[raised |-> FALSE, hits |-> VectorHits(r, near, n)] :
            r \in rankings, near \in {0, Cardinality(vec)}}

SemOutcomes(n) == Outcomes(SemRankings, n)

\* the orders of the ranking examples
RankingOrders == { <<"P6", "P7", "P1", "P2", "P3", "P4", "P8">>,
                   <<"P8", "P4", "P3", "P2", "P1", "P7", "P6">> }

\* the product lists of the ranking examples
RankingLists == { <<7, 3, 4>>, <<6, 1, 2, 8>> }

---------------------------------------------------------------------------
(* State *)

\* the record of a call: what was called with what, what it met and how it ended.
\* cycle counts the steps of a repair done so far: 1 a load() that met a corrupted
\* artifact, 2 the add_documents after it, 3 the save() after that, 4 the load() after that
Call(op) ==
    [op |-> op, raised |-> FALSE, fail |-> "none", saw |-> "", plist |-> <<>>,
     query |-> "", limit |-> 0, sem |-> <<>>, results |-> <<>>, repeat |-> FALSE,
     before |-> NewIndexState, cycle |-> 0,
     filters |-> None, retrieved |-> <<>>, no_color_match |-> FALSE]

Threads == {1, 2}

Idle == [at |-> "idle", query |-> "", expanded |-> "", first_key |-> ""]

Init ==
    /\ bm25 = None
    /\ doc_ids = <<>>
    /\ corpus = None
    /\ artifact = NoArtifact
    /\ store = {}
    /\ vec = {}
    /\ query_cache = <<>>
    /\ pc = [t \in Threads |-> Idle]
    /\ issued = 0
    /\ ProductSearcher_cache = <<>>
    /\ last = Call("init")

SetIndex(idx) ==
    /\ bm25' = idx.bm25
    /\ doc_ids' = idx.doc_ids
    /\ corpus' = idx.corpus

\* the longer of the doc-id list and the retained corpus
IndexLen(idx) == Max(Len(idx.doc_ids), IF idx.corpus = None THEN 0 ELSE Len(idx.corpus[1]))

---------------------------------------------------------------------------
(* BM25Index operations *)

\* BM25Index.__init__: another index object over the same artifact path
NewIndex ==
    /\ SetIndex(NewIndexState)
    /\ last' = Call("new")
    /\ UNCHANGED <<artifact, store, vec, query_cache, pc, issued, ProductSearcher_cache>>

\* an add_documents that rebuilds the scorer before it commits to the store
AddDocumentsIndexFirst(plist, fail) ==
    LET documents == Documents(plist) IN
    /\ IndexLen(IndexState) + Len(documents) <= MaxIndexLen
    /\ documents # <<>>
    /\ SetIndex(AddToIndex(IndexState, documents))
    /\ store' = IF fail = "store" THEN store ELSE store \cup Range(BatchIds(documents))
    /\ last' = [Call("add_documents") EXCEPT !.plist = plist, !.fail = fail,
                                             !.raised = (fail = "store")]
    /\ UNCHANGED <<artifact, vec, query_cache, pc, issued, ProductSearcher_cache>>

\* BM25Index.add_documents(documents); fail = "store" is a write error of the session
AddDocuments(plist, fail) ==
    LET documents == Documents(plist) IN
    /\ IndexLen(IndexState) + Len(documents) <= MaxIndexLen
    /\ IF documents = <<>>
       THEN /\ last' = [Call("add_documents") EXCEPT !.plist = plist]
            /\ UNCHANGED <<bm25, doc_ids, corpus, store>>
       ELSE IF fail = "store"
       THEN /\ last' = [Call("add_documents") EXCEPT !.plist = plist, !.raised = TRUE,
                                                     !.fail = fail]
            /\ UNCHANGED <<bm25, doc_ids, corpus, store>>
       ELSE /\ store' = store \cup Range(BatchIds(documents))
            /\ SetIndex(AddToIndex(IndexState, documents))
            /\ last' = [Call("add_documents") EXCEPT !.plist = plist,
                            !.cycle = IF last.cycle = 1 THEN 2 ELSE 0]
    /\ UNCHANGED <<artifact, vec, query_cache, pc, issued, ProductSearcher_cache>>

\* BM25Index.save
Save ==
    /\ artifact' = SavedArtifact(IndexState, artifact)
    /\ last' = IF last.cycle = 2
               THEN [Call("save") EXCEPT !.plist = last.plist, !.cycle = 3]
               ELSE Call("save")
    /\ UNCHANGED <<bm25, doc_ids, corpus, store, vec, query_cache, pc, issued, ProductSearcher_cache>>

\* BM25Index.load
Load ==
    LET r == LoadIndex(IndexState, artifact) IN
    /\ SetIndex(r.idx)
    /\ artifact' = r.artifact
    /\ last' = [Call("load") EXCEPT !.saw = artifact.state, !.before = IndexState,
                    !.plist = IF last.cycle = 3 THEN last.plist ELSE <<>>,
                    !.cycle = IF artifact.state = "corrupt" THEN 1
                              ELSE IF last.cycle = 3 THEN 4 ELSE 0]
    /\ UNCHANGED <<store, vec, query_cache, pc, issued, ProductSearcher_cache>>

\* BM25Index.clear
Clear ==
    /\ SetIndex(ClearIndex(IndexState))
    /\ artifact' = NoArtifact
    /\ last' = Call("clear")
    /\ UNCHANGED <<store, vec, query_cache, pc, issued, ProductSearcher_cache>>

\* the artifact file is damaged on disk (a write cut short, a bad sector)
CorruptFile ==
    /\ artifact.state = "valid"
    /\ artifact' = CorruptArtifact
    /\ last' = Call("corrupt")
    /\ UNCHANGED <<bm25, doc_ids, corpus, store, vec, query_cache, pc, issued, ProductSearcher_cache>>

\* DatabaseManager.clear_all on the store the index mirrors its records into
ClearStore ==
    /\ store # {}
    /\ store' = {}
    /\ last' = Call("clear_all")
    /\ UNCHANGED <<bm25, doc_ids, corpus, artifact, vec, query_cache, pc, issued, ProductSearcher_cache>>

\* BM25Index.search(query, limit)
LexSearch(query, limit) ==
    LET r == BM25Search(IndexState, artifact, store, query, limit) IN
    /\ SetIndex(r.idx)
    /\ artifact' = r.artifact
    /\ last' = [Call("bm25_search") EXCEPT !.query = query, !.limit = limit,
                                           !.raised = r.raised, !.results = r.results,
                                           !.saw = artifact.state, !.before = IndexState]
    /\ UNCHANGED <<store, vec, query_cache, pc, issued, ProductSearcher_cache>>

Next ==
    \/ NewIndex
    \/ \E plist \in ProductLists, fail \in {"none", "store"} : AddDocuments(plist, fail)
    \/ Save
    \/ Load
    \/ Clear
    \/ CorruptFile
    \/ ClearStore
    \/ \E query \in Queries, limit \in Limits : LexSearch(query, limit)

Spec == Init /\ [][Next]_vars

---------------------------------------------------------------------------
(* CatalogIndexer operations *)

\* CatalogIndexer.__init__ of the serving process: fresh objects, then load()
ServerStart ==
    LET r == LoadIndex(NewIndexState, artifact) IN
    /\ SetIndex(r.idx)
    /\ artifact' = r.artifact
    /\ query_cache' = <<>>
    /\ last' = [Call("start") EXCEPT !.saw = artifact.state]
    /\ UNCHANGED <<store, vec, pc, issued, ProductSearcher_cache>>

\* load_all_products: the startup loader builds its own CatalogIndexer over the
\* same store, artifact and collection, and ingests the catalog through it
LoadProducts(plist, cap) ==
    LET documents == Documents(plist)
        loaded    == LoadIndex(NewIndexState, artifact)
        added     == AddToIndex(loaded.idx, documents)
    IN
    /\ documents # <<>>
    /\ IndexLen(added) <= cap
    /\ store' = store \cup Range(BatchIds(documents))
    /\ artifact' = SavedArtifact(added, loaded.artifact)
    /\ vec' = vec \cup Range(BatchIds(documents))
    /\ last' = [Call("load_all_products") EXCEPT !.plist = plist]
    /\ UNCHANGED <<bm25, doc_ids, corpus, query_cache, pc, issued, ProductSearcher_cache>>

LoadAllProducts(plist) == LoadProducts(plist, MaxIndexLen)

\* CatalogIndexer.addProducts(products) on the serving instance.  fail names the
\* step that raises: the store commit, or the embedding of the vector add.
AddProducts(plist, fail) ==
    LET documents == Documents(plist)
        added     == AddToIndex(IndexState, documents)
        repeat    == last.op = "addProducts" /\ ~last.raised /\ last.plist = plist
    IN
    /\ documents # <<>>
    /\ IndexLen(IndexState) + Len(documents) <= MaxIndexLen
    /\ IF fail = "store"
       THEN /\ UNCHANGED <<bm25, doc_ids, corpus, store, artifact, vec>>
       ELSE /\ store' = store \cup Range(BatchIds(documents))
            /\ SetIndex(added)
            /\ artifact' = SavedArtifact(added, artifact)
            /\ vec' = IF fail = "embed" THEN vec ELSE vec \cup Range(BatchIds(documents))
    /\ last' = [Call("addProducts") EXCEPT !.plist = plist, !.fail = fail,
                                          !.raised = (fail # "none"),
                                          !.repeat = repeat, !.before = IndexState]
    /\ UNCHANGED <<query_cache, pc, issued, ProductSearcher_cache>>

\* CatalogIndexer.clearAll
ClearAll ==
    /\ store' = {}
    /\ SetIndex(ClearIndex(IndexState))
    /\ artifact' = NoArtifact
    /\ vec' = {}
    /\ last' = Call("clearAll")
    /\ UNCHANGED <<query_cache, pc, issued, ProductSearcher_cache>>

\* CatalogIndexer.searchProducts(query, limit) on the serving instance
SearchProducts(query, limit, sem) ==
    \E r \in {HybridSearch(IndexState, artifact, store, query_cache, query, limit, sem)} :
    /\ issued < MaxSearches
    /\ issued' = issued + 1
    /\ SetIndex(r.idx)
    /\ artifact' = r.artifact
    /\ query_cache' = r.cache
    /\ last' = [Call("searchProducts") EXCEPT !.query = query, !.limit = limit,
                                             !.sem = sem.hits,
                                             !.fail = IF sem.raised THEN "embed" ELSE "none",
                                             !.raised = r.raised, !.results = r.results,
                                             !.saw = artifact.state, !.before = IndexState]
    /\ UNCHANGED <<store, vec, pc, ProductSearcher_cache>>

NextCatalog ==
    \/ ServerStart
    \/ \E plist \in ProductLists : LoadAllProducts(plist)
    \/ \E plist \in ProductLists, fail \in {"none", "store", "embed"} : AddProducts(plist, fail)
    \/ ClearAll
    \/ \E query \in Queries, limit \in Limits :
         \E sem \in SemOutcomes(CandidateLimit(limit)) : SearchProducts(query, limit, sem)

SpecCatalog == Init /\ [][NextCatalog]_vars

\* the catalog of the ranking examples: loads by the startup loader, restarts of the
\* serving process, and searches on the serving instance
NextRanking ==
    \/ ServerStart
    \/ \E plist \in RankingLists : LoadProducts(plist, MaxCatalogLen)
    \/ \E query \in RankingQueries, limit \in Limits :
         \E sem \in Outcomes(RankingOrders, CandidateLimit(limit)) :
            SearchProducts(query, limit, sem)

SpecRanking == Init /\ [][NextRanking]_vars

---------------------------------------------------------------------------
(* ProductSearcher (retrieval/product_search.py): search over the serving   *)
(* CatalogIndexer with a class-level result cache and result filters        *)

\* product_search.py:20-27; each pattern is word(s), \s+, an optional "$", (\d+)
PRICE_PATTERNS == << <<"under">>, <<"less", "than">>, <<"below">>, <<"cheaper", "than">>,
                     <<"max">>, <<"maximum">> >>

SUBJECTIVE_PRICE_MAP == <<
    [term |-> "cheap", max_price |-> 200],
    [term |-> "affordable", max_price |-> 300],
    [term |-> "budget", max_price |-> 250],
    [term |-> "inexpensive", max_price |-> 250],
    [term |-> "expensive", max_price |-> 500],
    [term |-> "premium", max_price |-> 800],
    [term |-> "luxury", max_price |-> 1000],
    [term |-> "high-end", max_price |-> 1000],
    [term |-> "designer", max_price |-> 1200] >>

COLOR_KEYWORDS == <<"black", "white", "red", "green", "blue", "brown", "grey", "gray",
                    "yellow", "orange", "pink", "purple", "beige">>
MATERIAL_KEYWORDS == <<"wood", "metal", "leather", "fabric", "glass", "plastic", "steel">>
ROOM_KEYWORDS == <<"office", "bedroom", "living room", "dining room">>

ProductSearcher_cache_max_size == 500

\* the position after the whitespace run that starts at i
RECURSIVE SkipSpaces(_, _)
SkipSpaces(s, i) ==
    IF i <= Len(s) /\ CharAt(s, i) \in Whitespace THEN SkipSpaces(s, i + 1) ELSE i

\* the position after `word \s+ word \s+ ...` matched at i, or 0
RECURSIVE MatchWordsAt(_, _, _)
MatchWordsAt(words, s, i) ==
    IF words = <<>> THEN i
    ELSE LET e == i + Len(Head(words)) IN
         IF e <= Len(s) /\ SubSeq(s, i, e - 1) = Head(words) /\ CharAt(s, e) \in Whitespace
         THEN MatchWordsAt(Tail(words), s, SkipSpaces(s, e))
         ELSE 0

\* the longest run of digits that starts at i
RECURSIVE DigitsFrom(_, _)
DigitsFrom(s, i) ==
    IF i <= Len(s) /\ CharAt(s, i) \in Digits
    THEN CharAt(s, i) \o DigitsFrom(s, i + 1)
    ELSE ""

\* group 1 of the pattern matched at i, or ""
GroupAt(words, s, i) ==
    LET j == MatchWordsAt(words, s, i) IN
    IF j = 0 THEN ""
    ELSE DigitsFrom(s, IF j <= Len(s) /\ CharAt(s, j) = "$" THEN j + 1 ELSE j)

\* pattern.search(s): group 1 of the leftmost match, or ""
PatternSearch(words, s) ==
    LET at == {i \in 1..Len(s) : GroupAt(words, s, i) # ""} IN
    IF at = {} THEN "" ELSE GroupAt(words, s, CHOOSE i \in at : \A m \in at : i <= m)

DigitValue(c) == CHOOSE d \in 0..9 : CharAt("0123456789", d + 1) = c

\* float(digits)
RECURSIVE ParseNumber(_)
ParseNumber(digits) ==
    IF digits = "" THEN 0
    ELSE 10 * ParseNumber(SubSeq(digits, 1, Len(digits) - 1))
         + DigitValue(CharAt(digits, Len(digits)))

\* re.search(r'\b' + term + r'\b', s)
WordSearch(term, s) ==
    \E i \in 1..(Len(s) - Len(term) + 1) :
        /\ SubSeq(s, i, i + Len(term) - 1) = term
        /\ (i = 1 \/ CharAt(s, i - 1) \notin WordChars)
        /\ (i + Len(term) > Len(s) \/ CharAt(s, i + Len(term)) \notin WordChars)

\* a `for ... if ...: break` loop: the first of the elements found, as an option
FirstOf(found) == IF found = <<>> THEN None ELSE Some(found[1])

\* search, lines 138-152: the price ceiling read from the query
DetectedPrice(query_lower) ==
    LET explicit == FirstOf(SelectSeq(PRICE_PATTERNS,
                                      LAMBDA w : PatternSearch(w, query_lower) # ""))
        subjective == FirstOf(SelectSeq(SUBJECTIVE_PRICE_MAP,
                                        LAMBDA e : WordSearch(e.term, query_lower)))
    IN IF explicit # None THEN Some(ParseNumber(PatternSearch(explicit[1], query_lower)))
       ELSE IF subjective # None THEN Some(subjective[1].max_price)
       ELSE None

EmptyDict == [k \in {} |-> 0]

\* filters[key] = value unless the key is present or nothing was detected
SetDefault(filters, key, detected) ==
    IF key \in DOMAIN filters \/ detected = None THEN filters
    ELSE filters @@ (key :> detected[1])

\* search, lines 113-152: the filters after auto-detection from the query
DetectedFilters(filters, query) ==
    LET query_lower == Lower(query)
        given == IF filters = None THEN EmptyDict ELSE filters[1]
        color == FirstOf(SelectSeq(COLOR_KEYWORDS, LAMBDA c : Contains(c, query_lower)))
        material == FirstOf(SelectSeq(MATERIAL_KEYWORDS,
                              LAMBDA m : Contains(" " \o m \o " ", " " \o query_lower \o " ")))
        room == FirstOf(SelectSeq(ROOM_KEYWORDS, LAMBDA r : Contains(r, query_lower)))
    IN SetDefault(SetDefault(SetDefault(SetDefault(given, "color", color),
                                        "material", material),
                             "room_type", room),
                  "price_max", DetectedPrice(query_lower))

\* str(filters) of None, {} or a dictionary whose only key is a price bound
StrFilters(filters) ==
    IF filters = None THEN "None"
    ELSE IF DOMAIN filters[1] = {} THEN "{}"
    ELSE LET key == CHOOSE k \in DOMAIN filters[1] : TRUE IN
         "{'" \o key \o "': " \o Decimal(filters[1][key]) \o "}"

\* search, line 82
CacheKey(query, limit, filters) ==
    query \o ":" \o Decimal(limit) \o ":" \o StrFilters(filters)

\* search, lines 93-110: the fields of a formatted result that the filters read
FormatResult(result) ==
    LET product_data == ProductBySku(result.id) IN
    [id |-> product_data.sku, name |-> product_data.title, price |-> product_data.price,
     description |-> product_data.description, tags |-> product_data.tags,
     score |-> result.score]

\* str.replace of one character
RECURSIVE ReplaceChar(_, _, _)
ReplaceChar(s, old, new) ==
    IF s = "" THEN ""
    ELSE (IF CharAt(s, 1) = old THEN new ELSE CharAt(s, 1))
         \o ReplaceChar(SubSeq(s, 2, Len(s)), old, new)

\* the filter that lets every price through
AnyPrice(product, filters) == TRUE

\* _apply_filters, lines 227-234
PricePasses(product, filters) ==
    /\ ("price_min" \in DOMAIN filters) => ~(product.price < filters["price_min"])
    /\ ("price_max" \in DOMAIN filters) => ~(product.price > filters["price_max"])

\* _apply_filters, lines 242-317, for the keys auto-detection can add
AttributesPass(product, filters) ==
    LET prod_tags_lower == {Lower(t) : t \in Range(product.tags)}
        prod_desc == Lower(product.description)
        prod_title == Lower(product.name)
    IN /\ ("color" \in DOMAIN filters) =>
            LET target_color == Lower(filters["color"]) IN
            \/ target_color \in prod_tags_lower
            \/ ("color_" \o target_color) \in prod_tags_lower
            \/ ("colour_" \o target_color) \in prod_tags_lower
            \/ Contains(target_color, prod_title)
            \/ Contains(target_color, prod_desc)
       /\ ("material" \in DOMAIN filters) =>
            LET target_mat == Lower(filters["material"]) IN
            \/ target_mat \in prod_tags_lower
            \/ ("material_" \o target_mat) \in prod_tags_lower
            \/ Contains(target_mat, prod_desc)
       /\ ("room_type" \in DOMAIN filters) =>
            LET target_room == ReplaceChar(Lower(filters["room_type"]), "_", " ") IN
            \/ target_room \in prod_tags_lower
            \/ ReplaceChar(target_room, " ", "_") \in prod_tags_lower
            \/ Contains(target_room, prod_desc)

\* ProductSearcher._apply_filters
ApplyFilters(results, filters) ==
    SelectSeq(results, LAMBDA product : /\ PricePasses(product, filters)
                                        /\ AttributesPass(product, filters))

\* search, lines 155-174: the colours named by the tags of the formatted results
AvailableColors(formatted_results) ==
    UNION { {t \in {Lower(tag) : tag \in Range(formatted_results[k].tags)} :
                \/ (Len(t) >= 6 /\ SubSeq(t, 1, 6) = "color_")
                \/ t \in Range(COLOR_KEYWORDS)} : k \in 1..Len(formatted_results) }

\* the index of cache_key in the cache, or 0
CachedAt(cache, cache_key) ==
    IF \E k \in 1..Len(cache) : cache[k].key = cache_key
    THEN CHOOSE k \in 1..Len(cache) : cache[k].key = cache_key
    ELSE 0

\* search, lines 182-187; `returned` keeps what the call that made the entry went on
\* to return (lines 190-199): the list, or the no-colour-match response
Cached(cache, cache_key, final_results, no_color_match) ==
    Append(IF Len(cache) >= ProductSearcher_cache_max_size THEN Tail(cache) ELSE cache,
           [key |-> cache_key, value |-> final_results,
            returned |-> [products |-> final_results, no_color_match |-> no_color_match]])

\* search, lines 176-179
Filtered(formatted_results, filters, limit) ==
    SubSeq(IF DOMAIN filters # {} THEN ApplyFilters(formatted_results, filters)
           ELSE formatted_results,
           1, Min(limit, Len(IF DOMAIN filters # {}
                             THEN ApplyFilters(formatted_results, filters)
                             ELSE formatted_results)))

\* search, line 190: the no-colour-match response is returned instead of the list
NoColorMatch(filters, final_results, formatted_results) ==
    /\ "color" \in DOMAIN filters
    /\ final_results = <<>>
    /\ AvailableColors(formatted_results) # {}

\* search, lines 88-89
SearchLimit(limit) == Min(limit * 8, 100)

\* ProductSearcher.search(query, limit, filters): a cached list is returned as it
\* is; otherwise the catalog is searched, the results are formatted, filtered, cut
\* to limit and cached
ProductSearch(query, limit, filters, sem) ==
    IF CachedAt(ProductSearcher_cache, CacheKey(query, limit, filters)) > 0
    THEN /\ last' = [Call("search") EXCEPT
                        !.query = query, !.limit = limit, !.filters = filters,
                        !.repeat = TRUE,
                        !.results = ProductSearcher_cache[
                            CachedAt(ProductSearcher_cache,
                                     CacheKey(query, limit, filters))].value]
         /\ UNCHANGED <<bm25, doc_ids, corpus, artifact, store, vec, query_cache, pc,
                        issued, ProductSearcher_cache>>
    ELSE /\ issued < MaxSearches
         /\ \E r \in {HybridSearch(IndexState, artifact, store, query_cache, query,
                                   SearchLimit(limit), sem)} :
            \E final_results \in
                 {Filtered(List([k \in 1..Len(r.results) |-> FormatResult(r.results[k])]),
                           DetectedFilters(filters, query), limit)} :
              /\ issued' = issued + 1
              /\ SetIndex(r.idx)
              /\ artifact' = r.artifact
              /\ query_cache' = r.cache
              /\ ProductSearcher_cache' =
                    IF r.raised THEN ProductSearcher_cache
                    ELSE Cached(ProductSearcher_cache, CacheKey(query, limit, filters),
                                final_results,
                                NoColorMatch(DetectedFilters(filters, query), final_results,
                                             List([k \in 1..Len(r.results) |->
                                                     FormatResult(r.results[k])])))
              /\ last' = [Call("search") EXCEPT
                             !.query = query, !.limit = limit, !.filters = filters,
                             !.sem = sem.hits,
                             !.fail = IF sem.raised THEN "embed" ELSE "none",
                             !.raised = r.raised,
                             !.retrieved = r.results,
                             !.results = IF r.raised THEN <<>> ELSE final_results,
                             !.no_color_match =
                                 /\ ~r.raised
                                 /\ NoColorMatch(DetectedFilters(filters, query),
                                                 final_results,
                                                 List([k \in 1..Len(r.results) |->
                                                         FormatResult(r.results[k])])),
                             !.before = IndexState]
              /\ UNCHANGED <<store, vec, pc>>

\* list.sort(key=price, reverse=reverse): stable in both directions
SortByPrice(results, reverse) ==
    LET order == SortDesc(List([i \in 1..Len(results) |-> i]),
                          List([i \in 1..Len(results) |->
                                  IF reverse THEN results[i].price ELSE 0 - results[i].price]))
    IN List([k \in 1..Len(results) |-> results[order[k]]])

\* EasymartAssistantTools.search_products, lines 343-346: the caller sorts the list
\* search returned, in place.  The list is the object the cache holds under the
\* key of that search, so the cache entry is sorted with it.
SortResults(reverse) ==
    /\ last.op = "search" /\ ~last.raised /\ ~last.no_color_match
    /\ CachedAt(ProductSearcher_cache,
                CacheKey(last.query, last.limit, last.filters)) > 0
    /\ ProductSearcher_cache' =
          [ProductSearcher_cache EXCEPT
              ![CachedAt(ProductSearcher_cache,
                         CacheKey(last.query, last.limit, last.filters))].value =
                  SortByPrice(last.results, reverse)]
    /\ last' = [Call("sort") EXCEPT !.query = last.query, !.limit = last.limit,
                                    !.filters = last.filters,
                                    !.results = SortByPrice(last.results, reverse)]
    /\ UNCHANGED <<bm25, doc_ids, corpus, artifact, store, vec, query_cache, pc, issued>>

\* the filters handed to ProductSearcher.search
SearcherFilters == {None, Some(EmptyDict), Some("price_max" :> 300),
                    Some("price_max" :> 100), Some("price_min" :> 200)}

\* the serving process with its ProductSearcher: loads by the startup loader,
\* restarts, and searches through ProductSearcher
NextSearcher ==
    \/ ServerStart
    \/ \E plist \in RankingLists : LoadProducts(plist, MaxCatalogLen)
    \/ \E query \in SearcherQueries, limit \in Limits, filters \in SearcherFilters :
         \E sem \in Outcomes(RankingOrders, CandidateLimit(SearchLimit(limit))) :
            ProductSearch(query, limit, filters, sem)
    \/ \E reverse \in BOOLEAN : SortResults(reverse)

SpecSearcher == Init /\ [][NextSearcher]_vars

---------------------------------------------------------------------------
(* HybridSearch._expand_query run by several threads (asyncio.to_thread):   *)
(* a thread may be preempted between any two of its dictionary operations   *)

\* the n-th fresh query of the workload
FreshQuery(n) == "item " \o Decimal(n)

\* what a thread may ask next: a query nobody asked before, or the oldest cached one
NextQueries ==
    (IF issued < MaxIssued THEN {FreshQuery(issued + 1)} ELSE {})
    \cup (IF query_cache # <<>> THEN {query_cache[1].key} ELSE {})

MayStart(t) == t = 1 \/ Len(query_cache) >= WarmLen

At(t, at) == [pc EXCEPT ![t].at = at]

\* line 124: if query in self._query_cache
CacheCheck(t, query) ==
    /\ pc[t].at = "idle"
    /\ MayStart(t)
    /\ issued' = IF CacheHas(query_cache, query) THEN issued ELSE issued + 1
    /\ pc' = [pc EXCEPT ![t] = [at |-> IF CacheHas(query_cache, query) THEN "get" ELSE "size",
                                query |-> query, expanded |-> Expansion(query),
                                first_key |-> ""]]
    /\ last' = [Call("cache_check") EXCEPT !.query = query]
    /\ UNCHANGED <<bm25, doc_ids, corpus, artifact, store, vec, query_cache, ProductSearcher_cache>>

\* line 125: return self._query_cache[query]
CacheRead(t) ==
    /\ pc[t].at = "get"
    /\ pc' = [pc EXCEPT ![t] = Idle]
    /\ last' = [Call("cache_read") EXCEPT !.query = pc[t].query,
                    !.raised = ~CacheHas(query_cache, pc[t].query),
                    !.saw = IF CacheHas(query_cache, pc[t].query) THEN "" ELSE "KeyError"]
    /\ UNCHANGED <<bm25, doc_ids, corpus, artifact, store, vec, query_cache, issued, ProductSearcher_cache>>

\* line 140: if len(self._query_cache) >= self._cache_max_size
CacheSize(t) ==
    /\ pc[t].at = "size"
    /\ pc' = At(t, IF Len(query_cache) >= cache_max_size THEN "first" ELSE "insert")
    /\ last' = [Call("cache_size") EXCEPT !.query = pc[t].query]
    /\ UNCHANGED <<bm25, doc_ids, corpus, artifact, store, vec, query_cache, issued, ProductSearcher_cache>>

\* line 142: first_key = next(iter(self._query_cache))
CacheFirst(t) ==
    /\ pc[t].at = "first"
    /\ IF query_cache = <<>>
       THEN /\ pc' = [pc EXCEPT ![t] = Idle]
            /\ last' = [Call("cache_first") EXCEPT !.query = pc[t].query, !.raised = TRUE,
                                                   !.saw = "StopIteration"]
       ELSE /\ pc' = [pc EXCEPT ![t].at = "delete", ![t].first_key = query_cache[1].key]
            /\ last' = [Call("cache_first") EXCEPT !.query = pc[t].query]
    /\ UNCHANGED <<bm25, doc_ids, corpus, artifact, store, vec, query_cache, issued, ProductSearcher_cache>>

\* line 143: del self._query_cache[first_key]
CacheDelete(t) ==
    /\ pc[t].at = "delete"
    /\ IF CacheHas(query_cache, pc[t].first_key)
       THEN /\ query_cache' = SelectSeq(query_cache, LAMBDA e : e.key # pc[t].first_key)
            /\ pc' = At(t, "insert")
            /\ last' = [Call("cache_delete") EXCEPT !.query = pc[t].query]
       ELSE /\ query_cache' = query_cache
            /\ pc' = [pc EXCEPT ![t] = Idle]
            /\ last' = [Call("cache_delete") EXCEPT !.query = pc[t].query, !.raised = TRUE,
                                                    !.saw = "KeyError"]
    /\ UNCHANGED <<bm25, doc_ids, corpus, artifact, store, vec, issued, ProductSearcher_cache>>

\* line 144: self._query_cache[query] = expanded
CacheInsert(t) ==
    /\ pc[t].at = "insert"
    /\ query_cache' = CachePut(query_cache, pc[t].query, pc[t].expanded)
    /\ pc' = [pc EXCEPT ![t] = Idle]
    /\ last' = [Call("cache_insert") EXCEPT !.query = pc[t].query]
    /\ UNCHANGED <<bm25, doc_ids, corpus, artifact, store, vec, issued, ProductSearcher_cache>>

NextCache ==
    \E t \in Threads :
        \/ \E query \in NextQueries : CacheCheck(t, query)
        \/ CacheRead(t)
        \/ CacheSize(t)
        \/ CacheFirst(t)
        \/ CacheDelete(t)
        \/ CacheInsert(t)

SpecCache == Init /\ [][NextCache]_vars

\* what a single caller may ask next: a fresh query, or the oldest or newest cached
SequentialQueries ==
    (IF issued < MaxIssued THEN {FreshQuery(issued + 1)} ELSE {})
    \cup (IF query_cache # <<>>
          THEN {query_cache[1].key, query_cache[Len(query_cache)].key} ELSE {})

\* HybridSearch._expand_query(query) run to its end by the only caller
ExpandQueryCall(query) ==
    /\ issued' = IF CacheHas(query_cache, query) THEN issued ELSE issued + 1
    /\ query_cache' = ExpandQuery(query_cache, query).cache
    /\ last' = [Call("expand_query") EXCEPT !.query = query,
                    !.repeat = CacheHas(query_cache, query),
                    !.saw = ExpandQuery(query_cache, query).expanded]
    /\ UNCHANGED <<bm25, doc_ids, corpus, artifact, store, vec, pc, ProductSearcher_cache>>

NextSequential == \E query \in SequentialQueries : ExpandQueryCall(query)

SpecSequential == Init /\ [][NextSequential]_vars

---------------------------------------------------------------------------
(* Properties of the BM25Index lifecycle, checked under Spec *)

\* C3: a store write failure during add_documents raises to the caller and leaves
\* the document store and the index (scorer, doc-id list, corpus) as they were
C3_StoreFailureAtomic ==
    [][(last'.op = "add_documents" /\ last'.fail = "store")
         => (last'.raised /\ UNCHANGED <<store, bm25, doc_ids, corpus, artifact>>)]_vars

\* a failed write met an index and a store that already held documents
C3_Witness ==
    /\ last.op = "add_documents" /\ last.fail = "store" /\ last.raised
    /\ bm25 # None /\ store # {}
    /\ ~(Range(BatchIds(Documents(last.plist))) \subseteq store)

\* C6: load() on a corrupted artifact does not raise; it deletes the artifact and
\* leaves no scorer, no doc ids and an empty corpus, and a search made in that
\* state returns the empty list without failing
C6_LoadSurvivesCorruption ==
    (last.op = "load" /\ last.saw = "corrupt")
        => /\ ~last.raised
           /\ artifact.state = "absent"
           /\ bm25 = None /\ doc_ids = <<>> /\ corpus = Some(<<>>)
           /\ \A query \in Queries, limit \in Limits :
                LET r == BM25Search(IndexState, artifact, store, query, limit)
                IN ~r.raised /\ r.results = <<>>

\* a load() met a corrupted artifact while the index held a scorer and documents
C6_Witness ==
    /\ last.op = "load" /\ last.saw = "corrupt"
    /\ last.before.bm25 # None /\ last.before.doc_ids # <<>>
    /\ store # {}

\* the index a first ingest of the batch builds
FreshIngest(plist) == AddToIndex(NewIndexState, Documents(plist))

\* C7: after load() reset the index on a corrupted artifact, add_documents(batch),
\* save() and load() leave a scorer, a doc-id list and a corpus that describe
\* exactly the batch, and a lexical search finds what a fresh ingest would find
C7_RecoveryCycle ==
    (last.op = "load" /\ last.cycle = 4)
        => /\ bm25 = FreshIngest(last.plist).bm25
           /\ doc_ids = FreshIngest(last.plist).doc_ids
           /\ corpus = FreshIngest(last.plist).corpus
           /\ \A query \in Queries, limit \in Limits :
                BM25Search(IndexState, artifact, store, query, limit).results
                  = BM25Search(FreshIngest(last.plist), artifact, store, query, limit).results

---------------------------------------------------------------------------
(* Properties of the catalog, checked under SpecCatalog *)

Ids(results) == [k \in 1..Len(results) |-> results[k].id]

NoDuplicates(seq) == \A i, j \in 1..Len(seq) : seq[i] = seq[j] => i = j

\* the ids searchProducts returns from a given index state, whatever the semantic
\* branch answers
SearchIds(idx, query, limit, sem) ==
    Ids(HybridSearch(idx, artifact, store, query_cache, query, limit, sem).results)

\* C1: after addProducts(B) was run a second time with the same batch, the lexical
\* index holds every document id once and every search returns the ids, in the
\* order, it returned after the first run
C1_ReingestIdempotent ==
    (last.op = "addProducts" /\ last.repeat /\ ~last.raised)
        => /\ NoDuplicates(doc_ids)
           /\ \A query \in Queries, limit \in Limits :
                \A sem \in SemOutcomes(CandidateLimit(limit)) :
                   SearchIds(IndexState, query, limit, sem)
                     = SearchIds(last.before, query, limit, sem)

\* C2: after every addProducts or clearAll, returned or raised, the ids of the
\* lexical index, of the semantic index and of the document store are the same set
C2_StoresAgree ==
    (last.op \in {"addProducts", "clearAll"})
        => (Range(doc_ids) = vec /\ vec = store)

\* C4: a search for a query with at least one token returns at most N results,
\* every score above 0, in non-increasing order of score
C4_BoundedPositiveSorted ==
    (last.op = "searchProducts" /\ ~last.raised /\ Tokenize(last.query) # <<>>)
        => /\ Len(last.results) <= last.limit
           /\ \A k \in 1..Len(last.results) : last.results[k].score > 0
           /\ \A k \in 1..(Len(last.results) - 1) :
                last.results[k].score >= last.results[k + 1].score

\* a search that had more candidates than the limit and returned several results
\* of different scores
C4_Witness ==
    /\ last.op = "searchProducts" /\ ~last.raised /\ Tokenize(last.query) # <<>>
    /\ Len(last.results) = last.limit /\ last.limit >= 3
    /\ Len(last.sem) > last.limit
    /\ last.results[1].score > last.results[Len(last.results)].score

\* C5: a search for a query without tokens returns the empty list and does not
\* raise, whatever the semantic branch returns for the query
C5_ZeroTokenQueryEmpty ==
    (last.op = "searchProducts" /\ Tokenize(last.query) = <<>> /\ last.fail = "none")
        => (~last.raised /\ last.results = <<>>)

\* the products of the store whose text matches the primary category of the query
CategoryMatches(query) ==
    LET cat == ExtractPrimaryCategory(Lower(query))
    IN {sku \in store : cat.category # "" /\ CategoryMatchTable[cat.category][sku].has_match}

\* a search with a limit of at least 3, over a catalog of at least 3 documents, for
\* a query whose primary category matches fewer than 3 of them
FallbackCase ==
    /\ last.op = "searchProducts" /\ ~last.raised
    /\ last.limit >= MIN_RESULTS
    /\ Cardinality(store) >= 3
    /\ ExtractPrimaryCategory(Lower(last.query)).category # ""
    /\ Cardinality(CategoryMatches(last.query)) < 3

FallbackFlagged ==
    \A k \in 1..Len(last.results) :
        ~last.results[k].category_match => last.results[k].is_fallback

\* C8 as stated: in the fallback case the search returns at least
\* min(3, catalogSize) entries, the backfilled ones flagged is_fallback
C8_FallbackMinimum ==
    FallbackCase => /\ Len(last.results) >= Min(3, Cardinality(store))
                    /\ FallbackFlagged

\* the ids the two branches retrieved for the last search: the lexical hits and the
\* semantic hits within the threshold
Retrieved ==
    LET lex == BM25Search(IndexState, artifact, store, Expansion(Lower(last.query)),
                          CandidateLimit(last.limit)).results
        near == SelectSeq(last.sem, LAMBDA h : h.distance <= SEMANTIC_THRESHOLD)
    IN Range(Ids(lex)) \cup {near[k].id : k \in 1..Len(near)}

\* C8, amended: in the fallback case the search returns at least
\* min(3, number of retrieved candidates) entries, the backfilled ones flagged
C8_FallbackUpToPool ==
    FallbackCase => /\ Len(last.results) >= Min(3, Cardinality(Retrieved))
                    /\ FallbackFlagged

\* a fallback case where an unmatched candidate was added back to reach 3 results
C8_Witness ==
    /\ FallbackCase
    /\ Len(last.results) = 3
    /\ \E k \in 1..Len(last.results) : last.results[k].is_fallback

\* C9: a search changes no state but the query-expansion cache: the index in
\* memory, its artifact, the semantic index and the store are as before the call
C9_SearchIsPureRead ==
    [][(last'.op = "searchProducts")
         => UNCHANGED <<bm25, doc_ids, corpus, artifact, vec, store>>]_vars

---------------------------------------------------------------------------
(* Properties of the query-expansion cache, checked under SpecCache *)

\* C10: with several threads in _expand_query the cache never holds more than 200
\* entries, and no call fails on deleting an entry another thread already evicted
C10_CacheBoundedAndSafe ==
    /\ Len(query_cache) <= cache_max_size
    /\ ~(last.op = "cache_delete" /\ last.raised)


---------------------------------------------------------------------------
(* Properties of BM25Index.search, checked under Spec *)

\* the scores the scorer of the index gives the query
ScoresOf(query) == GetScores(bm25[1], Tokenize(query))

TopIds ==
    LET top == TopIndices(ScoresOf(last.query), last.limit)
    IN List([k \in 1..Len(top) |-> doc_ids[top[k]]])

\* a search over a scorer no longer than the doc-id list, one of whose top ids has
\* no record in the document store
MissingRecordCase ==
    /\ last.op = "bm25_search" /\ bm25 # None /\ Tokenize(last.query) # <<>>
    /\ Len(bm25[1]) <= Len(doc_ids)
    /\ \E k \in 1..Len(TopIds) : TopIds[k] \notin store

---------------------------------------------------------------------------
(* Alignment of the retained corpus, the doc-id list and the scorer *)

\* C16: after every add_documents, save, load and clear the corpus is retained when
\* there are doc ids, it is as long as the doc-id list, its position i holds the
\* tokens of the document whose id is at position i, and the scorer is built over it
C16_CorpusAligned ==
    (last.op \in {"add_documents", "save", "load", "clear"})
        => /\ (doc_ids # <<>> => corpus # None)
           /\ corpus # None =>
                /\ Len(corpus[1]) = Len(doc_ids)
                /\ \A i \in 1..Min(Len(doc_ids), Len(corpus[1])) :
                     corpus[1][i] = TokensOf[doc_ids[i]]
                /\ bm25 # None => bm25[1] = corpus[1]


---------------------------------------------------------------------------
(* The worked examples of the ranking, checked under SpecCatalog *)

\* the position of an id in a result list, 0 when it is not there
PositionOf(results, id) ==
    IF \E k \in 1..Len(results) : results[k].id = id
    THEN CHOOSE k \in 1..Len(results) : results[k].id = id
    ELSE 0

\* the final score of the returned entry r of the last search had its boost been b:
\* the contributions of its branch ranks, then the category, fallback and noun steps
ScoreWith(r, b) ==
    LET base == (IF r.bm25_rank > 0 THEN Contribution(hybrid_alpha, r.bm25_rank, b) ELSE 0)
                + (IF r.vector_rank > 0
                   THEN Contribution(10 - hybrid_alpha, r.vector_rank, b) ELSE 0)
        intent == QueryIntent(last.query)
        cat == Categorized([r EXCEPT !.score = base], intent.cat)
        back == IF r.is_fallback THEN [cat EXCEPT !.score = (@ * 3) \div 10] ELSE cat
    IN NounMatched(back, intent.nouns).score

\* a search for "gaming chair" that returned both A (P1) and B (P2)
BothReturned ==
    /\ last.op = "searchProducts" /\ ~last.raised /\ last.query = "gaming chair"
    /\ PositionOf(last.results, "P1") > 0
    /\ PositionOf(last.results, "P2") > 0

\* C13: whenever the query "gaming chair" returns both A and B, A is above B and
\* the score of B is a tenth of the score it has without the negative-keyword penalty
C13_NegativeKeywordExample ==
    BothReturned
        => LET b == last.results[PositionOf(last.results, "P2")]
               boost == BoostOf(last.query, "P2")
               unpenalized == ScoreWith(b, [boost EXCEPT !.penalties = 0])
           IN /\ PositionOf(last.results, "P1") < PositionOf(last.results, "P2")
              /\ b.score = ScoreWith(b, boost)
              /\ 10 * b.score <= unpenalized
              /\ unpenalized - 10 * b.score <= RoundingSlack

\* both were retrieved by both branches, B semantically nearer than A
C13_Witness ==
    /\ BothReturned
    /\ LET a == last.results[PositionOf(last.results, "P1")]
           b == last.results[PositionOf(last.results, "P2")]
       IN /\ a.bm25_rank > 0 /\ b.bm25_rank > 0
          /\ b.vector_rank > 0 /\ a.vector_rank > b.vector_rank


---------------------------------------------------------------------------
(* The ranking examples, checked under SpecRanking *)

\* C14: whenever the query "blue office chair" returns both D1 (P6, the phrase in
\* its title) and D2 (P7, the query words in its title), D1 is above D2
C14_PhraseBoostExample ==
    (/\ last.op = "searchProducts" /\ ~last.raised /\ last.query = "blue office chair"
     /\ PositionOf(last.results, "P6") > 0
     /\ PositionOf(last.results, "P7") > 0)
        => PositionOf(last.results, "P6") < PositionOf(last.results, "P7")

\* the candidates of the last search that survive the category partition and the
\* fallback, in the order the noun step walks them
LastPool ==
    LET lex == BM25Search(IndexState, artifact, store, Expansion(Lower(last.query)),
                          CandidateLimit(last.limit)).results
        combined == VectorLoop(last.sem, 1, last.query, Bm25Loop(lex, 1, last.query, <<>>))
    IN Pool(CategoryPass(SortByScore(combined), QueryIntent(last.query).cat))

\* C17: a search returns min(limit, survivors) entries, and no surviving candidate
\* left out has a final score strictly above that of a returned one
C17_TopByFinalScore ==
    (last.op = "searchProducts" /\ ~last.raised)
        => LET pool == LastPool
               nouns == QueryIntent(last.query).nouns
           IN /\ Len(last.results) = Min(last.limit, Len(pool))
              /\ \A k \in 1..Len(pool) :
                    PositionOf(last.results, pool[k].id) = 0
                        => \A j \in 1..Len(last.results) :
                              NounMatched(pool[k], nouns).score <= last.results[j].score


\* the query contains a key of the incompatibility table and the text of product id
\* contains one of the terms paired with that key
NegativeMatch(query, id) ==
    LET p == ProductBySku(id)
        text == Lower(p.title \o " " \o p.description)
    IN \E k \in 1..Len(NEGATIVE_KEYWORDS) :
          /\ Contains(NEGATIVE_KEYWORDS[k].key, Lower(query))
          /\ \E v \in Range(NEGATIVE_KEYWORDS[k].values) : Contains(v, text)

\* C18: the score of every returned entry carries a negative-keyword multiplier of
\* 0.1 when a key of the query matches the candidate's text and of 1.0 otherwise,
\* never less than 0.1
C18_SinglePenalty ==
    (last.op = "searchProducts" /\ ~last.raised)
        => \A j \in 1..Len(last.results) :
              LET r == last.results[j]
                  boost == BoostOf(last.query, r.id)
                  once == IF NegativeMatch(last.query, r.id) THEN 1 ELSE 0
              IN r.score = ScoreWith(r, [boost EXCEPT !.penalties = once])

\* the keyword set of primary category X holds the keywords of category Y, which
\* are not all keywords of X itself
ExtendedWith(X, Y) ==
    /\ Y # X
    /\ Range(CATEGORY_KEYWORDS[Y]) \subseteq AllKeywords(X)
    /\ ~(Range(CATEGORY_KEYWORDS[Y]) \subseteq Range(CATEGORY_KEYWORDS[X]))

\* C19: when the keyword set of the primary category X of a search is extended with
\* the keywords of a category Y, the keyword set of Y is not extended with those of X
C19_OneDirectionalAliases ==
    (last.op = "searchProducts" /\ ~last.raised /\ QueryIntent(last.query).cat.category # "")
        => LET X == QueryIntent(last.query).cat.category
           IN \A Y \in DOMAIN CATEGORY_KEYWORDS :
                 (/\ Range(CATEGORY_KEYWORDS[Y]) \subseteq QueryIntent(last.query).cat.keywords
                  /\ ExtendedWith(X, Y))
                    => ~ExtendedWith(Y, X)

\* the priority order as the specification lists it
ListedOrder == <<"lighting", "rug", "mirror", "decor", "sofa", "recliner", "chair", "bed",
                 "desk", "table", "shelf", "stool", "storage", "outdoor">>

\* the positions of ListedOrder whose group has a keyword occurring in the
\* lower-cased query
GroupsHit(query) ==
    {k \in 1..Len(ListedOrder) :
        \E kw \in Range(CATEGORY_KEYWORDS[ListedOrder[k]]) : Contains(kw, Lower(query))}

\* the candidates the two branches of the last search retrieved
LastCombined ==
    LET lex == BM25Search(IndexState, artifact, store, Expansion(Lower(last.query)),
                          CandidateLimit(last.limit)).results
    IN VectorLoop(last.sem, 1, last.query, Bm25Loop(lex, 1, last.query, <<>>))

\* C20: the primary category of a search is the first listed group with a keyword in
\* the lower-cased query; with no such group there is no category, every retrieved
\* candidate stays in the pool and no returned entry is a fallback
C20_PrimaryCategory ==
    (last.op = "searchProducts" /\ ~last.raised)
        => LET hit == GroupsHit(last.query)
               cat == QueryIntent(last.query).cat
           IN IF hit # {}
              THEN cat.category = ListedOrder[CHOOSE k \in hit : \A m \in hit : k <= m]
              ELSE /\ cat.category = ""
                   /\ Len(LastPool) = Len(LastCombined)
                   /\ \A j \in 1..Len(last.results) :
                         /\ last.results[j].category_match
                         /\ ~last.results[j].is_fallback

\* a search whose query has keywords of two groups (desk and lighting) returned
\* entries, some of them outside the category
C20_Witness ==
    /\ last.op = "searchProducts" /\ ~last.raised /\ last.query = "desk lamp"
    /\ Cardinality(GroupsHit(last.query)) >= 2
    /\ last.results # <<>>


---------------------------------------------------------------------------
(* ProductSearcher, checked under SpecSearcher *)

\* the last call was ProductSearcher.search with a caller's price_max, and returned
PriceMaxSearch ==
    /\ last.op = "search" /\ ~last.raised
    /\ last.filters # None
    /\ "price_max" \in DOMAIN last.filters[1]

\* the retrieved products that pass every filter other than the price ceiling
PassingOtherFilters ==
    LET other == [k \in DOMAIN DetectedFilters(last.filters, last.query) \ {"price_max"}
                    |-> DetectedFilters(last.filters, last.query)[k]]
    IN SelectSeq(List([k \in 1..Len(last.retrieved) |-> FormatResult(last.retrieved[k])]),
                 LAMBDA product : DOMAIN other # {} =>
                                    ApplyFilters(<<product>>, other) # <<>>)

\* C15: a search with price_max = P returns no product priced above P, and a search
\* that was not answered from the cache returns the first limit retrieved products
\* among those priced at most P that pass the other filters; the product priced 250
\* (P3) is never returned for P = 100
C15_PriceFilter ==
    PriceMaxSearch
        => LET P == last.filters[1]["price_max"]
               within == SelectSeq(PassingOtherFilters, LAMBDA product : product.price <= P)
           IN /\ \A j \in 1..Len(last.results) : last.results[j].price <= P
              /\ ~last.repeat
                    => last.results = SubSeq(within, 1, Min(last.limit, Len(within)))
              /\ P = 100 => PositionOf(last.results, "P3") = 0

\* "desk" with price_max = 100, not from the cache: the product priced 250 was
\* retrieved and left out, a cheaper one was returned
C15_Witness ==
    /\ PriceMaxSearch /\ ~last.repeat
    /\ last.query = "desk" /\ last.filters[1]["price_max"] = 100
    /\ PositionOf(last.retrieved, "P3") > 0
    /\ PositionOf(last.results, "P3") = 0
    /\ last.results # <<>>

\* "desk" with price_max = 300 returned the product priced 250
PriceIncluded ==
    /\ PriceMaxSearch /\ ~last.repeat
    /\ last.query = "desk" /\ last.filters[1]["price_max"] = 300
    /\ PositionOf(last.results, "P3") > 0


---------------------------------------------------------------------------
(* The tokenizer, checked under Spec on the documents add_documents ingests *)
(* and the queries search is given                                          *)

\* the token lists the scorer holds for the batch of the last add_documents
BatchTokens ==
    LET n == Len(Documents(last.plist)) IN
    SubSeq(bm25[1], Len(bm25[1]) - n + 1, Len(bm25[1]))

Ingested ==
    /\ last.op = "add_documents" /\ ~last.raised
    /\ Documents(last.plist) # <<>>

\* the stop-word rule as stated: dropped exactly when short, a stop word and no
\* domain keyword
StatedDrop(t) == Len(t) <= 2 /\ t \in STOP_WORDS /\ t \notin PRODUCT_KEYWORDS

\* C21: the unigrams of every ingested document are its words without those that
\* have length at most 2, are stop words and are not domain keywords
C21_StopWordRule ==
    Ingested
        => \A k \in 1..Len(BatchTokens) :
              LET words == Words(Lower(Documents(last.plist)[k].content)) IN
              BatchTokens[k] = SelectSeq(words, LAMBDA t : ~StatedDrop(t)) \o Bigrams(words)

\* wordA_wordB for the adjacent pairs with a domain keyword among the two words
StatedBigrams(words) ==
    LET pairs == SelectSeq([i \in 1..(Len(words) - 1) |-> i],
                           LAMBDA i : {words[i], words[i + 1]} \cap PRODUCT_KEYWORDS # {})
    IN [k \in 1..Len(pairs) |-> words[pairs[k]] \o "_" \o words[pairs[k] + 1]]

StatedTokens(text) ==
    SelectSeq(Words(Lower(text)), KeepToken) \o StatedBigrams(Words(Lower(text)))

---------------------------------------------------------------------------
(* The query-expansion cache with one caller, checked under SpecSequential *)

\* C23: with one caller the cache never holds more than 200 entries; a hit returns
\* the stored expansion and leaves the cache as it was; a miss appends the query,
\* after removing the entry inserted earliest when the cache is full
C23_SequentialCache ==
    [][last'.op = "expand_query"
         => /\ Len(query_cache') <= 200
            /\ IF CacheHas(query_cache, last'.query)
               THEN /\ query_cache' = query_cache
                    /\ last'.saw = CacheGet(query_cache, last'.query)
               ELSE /\ CacheGet(query_cache', last'.query) = last'.saw
                    /\ query_cache' =
                         Append(IF Len(query_cache) >= 200
                                THEN SubSeq(query_cache, 2, Len(query_cache))
                                ELSE query_cache,
                                [key |-> last'.query, value |-> last'.saw])]_vars

\* a new query went into a full cache: the first query ever asked is gone
C23_Witness ==
    /\ last.op = "expand_query" /\ ~last.repeat
    /\ Len(query_cache) = 200
    /\ ~CacheHas(query_cache, FreshQuery(1))
    /\ query_cache[200].key = last.query


---------------------------------------------------------------------------
(* Rank fusion and semantic filtering, checked under SpecRanking *)

\* what the lexical branch of the last search returned
LastLexical ==
    BM25Search(IndexState, artifact, store, Expansion(Lower(last.query)),
               CandidateLimit(last.limit)).results

\* the rank of id in a branch's list (of its last occurrence), or 0
RankIn(results, id) ==
    IF \E k \in 1..Len(results) : results[k].id = id
    THEN CHOOSE k \in 1..Len(results) :
            /\ results[k].id = id
            /\ \A m \in 1..Len(results) : results[m].id = id => m <= k
    ELSE 0

\* weight * B / (60 + rank), weight in tenths, in units of 1e-8
StatedTerm(weight, rank, B) ==
    IF rank = 0 THEN 0
    ELSE ((weight * B.boost * 10000) \div (60 + rank)) \div Pow10(B.penalties)

\* the semantic rank of id that counts: 0 when it is absent or beyond the threshold
NearRank(id) ==
    LET k == RankIn(last.sem, id) IN
    IF k > 0 /\ last.sem[k].distance <= 85 THEN k ELSE 0

Searched == last.op = "searchProducts" /\ ~last.raised

\* C24: before the category step the candidates are the ids of the two branches, and
\* the score of each is alpha*B/(60+r1) for its lexical rank plus (1-alpha)*B/(60+r2)
\* for its semantic rank, a branch it is absent from contributing nothing
C24_RankFusion ==
    Searched
        => LET combined == LastCombined
               lex == LastLexical
           IN /\ {combined[k].id : k \in 1..Len(combined)}
                    = {lex[k].id : k \in 1..Len(lex)}
                      \cup {last.sem[k].id : k \in {m \in 1..Len(last.sem) :
                                                       last.sem[m].distance <= 85}}
              /\ \A k \in 1..Len(combined) :
                    LET c == combined[k]
                        B == FinalBoost(last.query, ProductBySku(c.id))
                    IN /\ c.bm25_rank = RankIn(lex, c.id)
                       /\ c.vector_rank = NearRank(c.id)
                       /\ c.score = StatedTerm(hybrid_alpha, c.bm25_rank, B)
                                    + StatedTerm(10 - hybrid_alpha, c.vector_rank, B)
              /\ \A j \in 1..Len(last.results) :
                    LET r == last.results[j]
                        c == combined[PositionOf(combined, r.id)]
                    IN /\ PositionOf(combined, r.id) > 0
                       /\ r.bm25_rank = c.bm25_rank /\ r.vector_rank = c.vector_rank
                       /\ r.score = ScoreWith(r, FinalBoost(last.query, ProductBySku(r.id)))

\* a search returned a candidate of both branches and a candidate of one branch only
C24_Witness ==
    /\ Searched
    /\ \E j \in 1..Len(last.results) :
          last.results[j].bm25_rank > 0 /\ last.results[j].vector_rank > 0
    /\ \E j \in 1..Len(last.results) :
          last.results[j].bm25_rank = 0 /\ last.results[j].vector_rank > 0

\* C25: a semantic candidate farther than 0.85 contributes nothing: absent from the
\* lexical branch it is not returned, present there its score is the lexical term
\* alone and its vector_rank and semantic_distance are unset
C25_SemanticThreshold ==
    Searched
        => \A m \in 1..Len(last.sem) :
              last.sem[m].distance > 85
                 => LET id == last.sem[m].id
                        at == PositionOf(last.results, id)
                    IN IF RankIn(LastLexical, id) = 0
                       THEN at = 0
                       ELSE at > 0 =>
                              /\ last.results[at].vector_rank = 0
                              /\ last.results[at].semantic_distance = -1
                              /\ last.results[at].bm25_rank = RankIn(LastLexical, id)
                              /\ last.results[at].score
                                   = ScoreWith([last.results[at] EXCEPT !.vector_rank = 0],
                                               FinalBoost(last.query, ProductBySku(id)))

\* the semantic branch returned only far candidates, one of which the lexical
\* branch found and the search returned, another of which it did not
C25_Witness ==
    /\ Searched
    /\ \E m \in 1..Len(last.sem) :
          /\ last.sem[m].distance > 85
          /\ PositionOf(last.results, last.sem[m].id) > 0
    /\ \E m \in 1..Len(last.sem) :
          /\ last.sem[m].distance > 85
          /\ RankIn(LastLexical, last.sem[m].id) = 0


---------------------------------------------------------------------------
(* The noun-match step, checked under SpecRanking *)

\* how many of the nouns appear in the title of product id, in either form
NounsInTitle(nouns, id) ==
    Cardinality({b \in nouns : \/ Contains(b, Lower(ProductBySku(id).title))
                               \/ Contains(b \o "s", Lower(ProductBySku(id).title))})

\* the stated multiplier, as a fraction <<numerator, denominator>>
StatedMultiplier(nouns, id) ==
    LET n == Cardinality(nouns)
        m == NounsInTitle(nouns, id)
    IN IF n = 0 \/ m = 0 THEN <<1, 1>>
       ELSE IF m = n THEN <<2, 1>>
       ELSE IF 2 * m >= n THEN <<3, 2>>
       ELSE <<6, 5>>

\* C26: the score of every returned entry is its score after the category and
\* fallback steps times 2.0, 1.5, 1.2 or 1.0 by the share of the query's important
\* nouns in its title, and is never below that score
C26_NounMatchNeverPenalty ==
    Searched
        => LET pool == LastPool
               nouns == QueryIntent(last.query).nouns
           IN \A j \in 1..Len(last.results) :
                 LET r == last.results[j]
                     c == pool[PositionOf(pool, r.id)]
                     f == StatedMultiplier(nouns, r.id)
                 IN /\ PositionOf(pool, r.id) > 0
                    /\ r.score = (c.score * f[1]) \div f[2]
                    /\ r.score >= c.score

\* a search with two important nouns returned an entry matching one of them (1.5)
\* and an entry matching none (1.0)
C26_Witness ==
    /\ Searched
    /\ Cardinality(QueryIntent(last.query).nouns) = 2
    /\ \E j \in 1..Len(last.results) :
          /\ NounsInTitle(QueryIntent(last.query).nouns, last.results[j].id) = 1
          /\ last.results[j].score > 0
    /\ \E j \in 1..Len(last.results) :
          NounsInTitle(QueryIntent(last.query).nouns, last.results[j].id) = 0

\* the singular of the plural nouns of the important-noun set
SingularOf ==
    [n \in {p \in IMPORTANT_NOUNS : CharAt(p, Len(p)) = "s"} |->
        IF n = "shelves" THEN "shelf"
        ELSE IF n = "benches" THEN "bench"
        ELSE SubSeq(n, 1, Len(n) - 1)]

\* C27: every plural important noun of a query is reduced to its singular: the base
\* nouns of the search are those of the query with each plural replaced by its singular
C27_PluralNormalized ==
    Searched
        => QueryIntent(last.query).nouns
             = {IF w \in DOMAIN SingularOf THEN SingularOf[w] ELSE w :
                  w \in Range(Split(Lower(last.query))) \cap IMPORTANT_NOUNS}


---------------------------------------------------------------------------
(* The shape of the returned list, checked under SpecRanking *)

\* C28: a returned entry is a fallback exactly when it does not match the category;
\* entries that do not match were added only when fewer than 3 candidates matched,
\* and matched and added entries are then at most 3 before the cut to limit
C28_FallbackShape ==
    Searched
        => LET pool == LastPool
               matched == {k \in 1..Len(pool) : pool[k].category_match}
           IN /\ \A j \in 1..Len(last.results) :
                    /\ last.results[j].is_fallback <=> ~last.results[j].category_match
                    /\ \E k \in 1..Len(pool) :
                          /\ pool[k].id = last.results[j].id
                          /\ pool[k].category_match = last.results[j].category_match
              /\ \A k \in 1..Len(pool) : pool[k].is_fallback <=> ~pool[k].category_match
              /\ (matched # 1..Len(pool))
                    => Cardinality(matched) < 3 /\ Len(pool) <= 3

\* a search returned an entry of the detected category and a fallback entry, with
\* more unmatched candidates retrieved than were added back
C28_Witness ==
    /\ Searched
    /\ \E j \in 1..Len(last.results) : last.results[j].category_match
    /\ \E j \in 1..Len(last.results) : last.results[j].is_fallback
    /\ Len(LastCombined) > 3


\* C29 (under SpecCatalog, where a repeated ingest puts an id twice into the lexical
\* index): no id occurs twice in the list a search returns
C29_NoDuplicateIds ==
    Searched
        => \A j, k \in 1..Len(last.results) :
              last.results[j].id = last.results[k].id => j = k

\* the lexical ranking held an id twice, the semantic branch returned it too, and
\* the search returned it
C29_Witness ==
    /\ Searched
    /\ \E j \in 1..Len(last.results) :
          /\ last.results[j].bm25_rank > 0 /\ last.results[j].vector_rank > 0
          /\ Cardinality({k \in 1..Len(LastLexical) :
                             LastLexical[k].id = last.results[j].id}) > 1


---------------------------------------------------------------------------
(* The result cache of ProductSearcher, checked under SpecSearcher *)

\* C30: a search answered from the cache returns what the call that made the cache
\* entry returned: the same products in the same order, and the no-colour-match
\* response if that call gave one
C30_CacheTransparent ==
    (last.op = "search" /\ ~last.raised /\ last.repeat)
        => LET e == ProductSearcher_cache[
                       CachedAt(ProductSearcher_cache,
                                CacheKey(last.query, last.limit, last.filters))]
           IN /\ last.results = e.returned.products
              /\ last.no_color_match = e.returned.no_color_match

=============================================================================
